---- MODULE Spec2Model ----
(***************************************************************************)
(* Model of the commit protocol of tsuba::RDG (libtsuba/src/RDG.cpp):      *)
(* RDG::Store -> RDG::DoStore -> CommitRDG, run collectively by the hosts  *)
(* of one job against a blob store and a naming service that a foreign     *)
(* writer may also advance.                                                *)
(***************************************************************************)
EXTENDS Integers, Sequences, FiniteSets, TLC

\* ------------------------------------------------------------------ bounds
NumHosts == 2      \* Comm()->Num of the job
MaxStores == 2     \* Store calls per host
MaxForeign == 1    \* commits by another writer on the same directory
MaxFaults == 1     \* failed calls, lost writes and aborted executions, in all
MaxNodeColumns == 2  \* columns of a node table
MaxEdgeColumns == 2  \* columns of an edge table
MaxNodes == 3        \* nodes of a graph topology
MaxEdges == 3        \* edges of a graph topology
MaxTableColumns == 3 \* columns of a table handed to WriteTable
NumThreads == 2      \* worker threads of a subgraph search
MaxFound == 2        \* largest kFound
MaxQueryNodes == 2   \* nodes of a query graph
MaxDataNodes == 2    \* nodes of a data graph

Hosts == 0 .. NumHosts - 1

\* The directory the handles name, and the rdg_dir_ of an RDG that was never
\* loaded by Make.
Dir == "D"
NoDir == ""

\* ------------------------------------------------------------------ paths
\* A path inside Dir.  kind "none" is the empty string.
NoPath == [kind |-> "none", name |-> "", host |-> 0, n |-> 0]

\* galois::Uri::RandFile(name): a fresh unique name.  A Store call draws at
\* most one name per column, so (host, name, number of the call) is unique.
RandFile(h, name, n) == [kind |-> "rand", name |-> name, host |-> h, n |-> n]

\* RDGMeta::PartitionFileName(dir, host, version): the header file.
PartitionFileName(h, v) == [kind |-> "part", name |-> "part_vers", host |-> h, n |-> v]

\* RDGMeta::FileName(dir, version): the metadata-pointer file.
FileName(v) == [kind |-> "meta", name |-> "meta", host |-> 0, n |-> v]

\* special partition property names
kMirrorNodesPropName == "mirror_nodes"
kMasterNodesPropName == "master_nodes"
kLocalToTGlobalPropName == "local_to_global_vector"

MirrorPropName(i) == kMirrorNodesPropName \o "_" \o ToString(i)

\* The master sets named like the mirror sets.
MasterPropNameLikeMirror(i) == kMirrorNodesPropName \o "_" \o ToString(i)

MasterPropName(i) == kMasterNodesPropName \o "_" \o ToString(i)

\* ------------------------------------------------------------------ RDGMeta
\* RDGMeta::NextVersion(num_hosts, policy_id, transposed, lineage)
NextVersion(meta, num_hosts, lineage) ==
    [version |-> meta.version + 1, num_hosts |-> num_hosts, lineage |-> lineage]

\* The version the directory holds when the job starts: committed by an
\* earlier run of the same protocol.
InitMeta == [version |-> 1, num_hosts |-> NumHosts, lineage |-> << >>]

\* ------------------------------------------------------------------ header
PropStorageInfo(name, path, persist) == [name |-> name, path |-> path, persist |-> persist]

\* The partition header stored for host h in the initial version.
InitHeader(h) ==
    [ topology_path |-> RandFile(h, "topology", 0),
      node_prop_info_list |-> << PropStorageInfo("n0", RandFile(h, "n0", 0), TRUE) >>,
      edge_prop_info_list |-> << PropStorageInfo("e0", RandFile(h, "e0", 0), TRUE) >>,
      part_prop_info_list |-> << >> ]

\* RDGPartHeader::UnbindFromStorage: forget every recorded location.
UnbindFromStorage(hdr) ==
    [ hdr EXCEPT
        !.topology_path = NoPath,
        !.node_prop_info_list = [i \in DOMAIN @ |-> [@[i] EXCEPT !.path = NoPath]],
        !.edge_prop_info_list = [i \in DOMAIN @ |-> [@[i] EXCEPT !.path = NoPath]] ]

\* Every file a header names.
HeaderFiles(hdr) ==
    {hdr.topology_path}
    \cup {hdr.node_prop_info_list[i].path : i \in DOMAIN hdr.node_prop_info_list}
    \cup {hdr.edge_prop_info_list[i].path : i \in DOMAIN hdr.edge_prop_info_list}
    \cup {hdr.part_prop_info_list[i].path : i \in DOMAIN hdr.part_prop_info_list}

\* ------------------------------------------------------------------ blob store
File(path, data) == [path |-> path, data |-> data]

\* The store after the writes in S became durable (a later write of a path
\* replaces the earlier content).
Durable(store, S) ==
    [ p \in DOMAIN store \cup {f.path : f \in S} |->
        IF \E f \in S : f.path = p
        THEN (CHOOSE f \in S : f.path = p).data
        ELSE store[p] ]

\* What a set W of writes in flight can leave on storage when they are not
\* all joined successfully: all of them but one, or none (and all of them,
\* when execution is aborted before the join).
Losses(W) == {W \ {f} : f \in W} \cup {{}}

\* ------------------------------------------------------------------ state
VARIABLES
    pc,           \* where each host stands: "idle", a position inside CommitRDG, "crashed"
    handle,       \* handle.impl_->rdg_meta() of each host
    new_meta,     \* CommitRDG's local new_meta
    rdg,          \* each host's RDG: header, tables, boundary arrays, rdg_dir_, lineage_
    write_group,  \* writes enqueued in the host's WriteGroup and not yet joined
    result,       \* what the host's last Store returned
    nstores,      \* Store calls made by each host
    ns,           \* the naming service's latest RDGMeta for Dir
    blob,         \* the blob store: path -> content, durable files only
    barCount,     \* comm->Barrier() calls entered by each host
    bcast,        \* results the elected host shared, one per OneHostOnly
    ohoCount,     \* OneHostOnly calls completed by each host
    nforeign,     \* commits made by the foreign writer
    nfaults,      \* faults that happened so far
    nsHist,       \* every value the naming service held as latest, with who set it
    call,         \* observations of each host's current (or last) Store call
    finished,     \* target versions for which the host's Finish returned success
    flags,        \* what each host's handle was opened for
    made,         \* what the last RDG::Make returned, and to which host
    pg,           \* a PropertyFileGraph and what the last call on its typed view returned
    wt,           \* the arguments of the last WriteTable call and what it returned
    search        \* a subgraph-isomorphism run: its graphs, its threads, its report

vars == << pc, handle, new_meta, rdg, write_group, result, nstores,
           ns, blob, barCount, bcast, ohoCount, nforeign, nfaults, nsHist, call, finished,
           flags, made, pg, wt, search >>

\* tsuba::OneHostOnly runs its callback on this host.
ElectedHost == 0

\* ------------------------------------------------------------------ the local part of Store
\* The host-local part of a Store call is run as one step that threads a
\* record L through the statements: the header being edited, the writes
\* enqueued, the fallible calls and fault checkpoints passed, and whether the
\* call is still running.  failAt/crashAt pick the fallible call that fails
\* and the checkpoint at which execution is aborted (0: none).

\* TSUBA_PTP: a fault-injection checkpoint.
PTP(L, label) ==
    IF L.status # "run" THEN L
    ELSE IF L.ptps + 1 = L.crashAt
         THEN [L EXCEPT !.ptps = @ + 1, !.status = "crashed", !.at = label]
         ELSE [L EXCEPT !.ptps = @ + 1]

\* A fallible call: fails when it is the failAt-th of this Store.
Fallible(L, error) ==
    IF L.status # "run" THEN L
    ELSE IF L.calls + 1 = L.failAt
         THEN [L EXCEPT !.calls = @ + 1, !.status = "failed", !.at = error]
         ELSE [L EXCEPT !.calls = @ + 1]

\* WriteGroup::StartStore: enqueue, return at once.
StartStore(L, path, data) ==
    IF L.status # "run" THEN L
    ELSE [L EXCEPT !.wg = @ \cup {File(path, data)}]

\* WriteGroup::Make
WriteGroupMake(L) == Fallible(L, "IOError")

DoStoreArrowArrayAtName(L, h, name, data) ==
    IF L.status # "run" THEN L
    ELSE LET next_path == RandFile(h, name, L.rand)
             L1 == Fallible(L, "ArrowError")
             L2 == PTP(L1, "column")
             L3 == StartStore(L2, next_path, data)
         IN  [L3 EXCEPT !.retPath = next_path]

RECURSIVE WriteTableLoop(_, _, _, _, _, _)
WriteTableLoop(L, h, schema, properties, i, next_paths) ==
    IF L.status # "run" \/ i > Len(properties)
    THEN [L EXCEPT !.retPaths = next_paths]
    ELSE IF ~properties[i].persist \/ properties[i].path # NoPath
         THEN WriteTableLoop(L, h, schema, properties, i + 1, next_paths)
         ELSE LET name == IF properties[i].name = "" THEN schema[i]
                          ELSE properties[i].name
                  L1 == DoStoreArrowArrayAtName(L, h, name, schema[i])
              IN  WriteTableLoop(L1, h, schema, properties, i + 1,
                                 IF L1.status = "run"
                                 THEN Append(next_paths, L1.retPath)
                                 ELSE next_paths)

\* The generated names handed out from the last one to the first.
RECURSIVE AssignPathsFromBack(_, _)
AssignPathsFromBack(properties, next_paths) ==
    IF properties = << >> THEN << >>
    ELSE LET v == Head(properties)
         IN  IF v.persist /\ v.path = NoPath
             THEN << [v EXCEPT !.path = next_paths[Len(next_paths)]] >>
                  \o AssignPathsFromBack(Tail(properties),
                                         SubSeq(next_paths, 1, Len(next_paths) - 1))
             ELSE << v >> \o AssignPathsFromBack(Tail(properties), next_paths)

RECURSIVE AssignPaths(_, _)
AssignPaths(properties, next_paths) ==
    IF properties = << >> THEN << >>
    ELSE LET v == Head(properties)
         IN  IF v.persist /\ v.path = NoPath
             THEN << [v EXCEPT !.path = Head(next_paths)] >>
                  \o AssignPaths(Tail(properties), Tail(next_paths))
             ELSE << v >> \o AssignPaths(Tail(properties), next_paths)

WriteTable(L, h, schema, properties) ==
    LET L1 == WriteTableLoop(L, h, schema, properties, 1, << >>)
        L2 == PTP(L1, "table")
    IN  IF L2.status # "run" THEN L2
        ELSE [L2 EXCEPT !.retProps = IF L2.retPaths = << >> THEN properties
                                     ELSE AssignPaths(properties, L2.retPaths)]

PartPropName(kind, i) ==
    IF kind = "mirror" THEN MirrorPropName(i) ELSE MasterPropName(i)

RECURSIVE WritePartLoop(_, _, _, _, _, _)
WritePartLoop(L, h, kind, arrays, i, next_properties) ==
    IF L.status # "run" \/ i >= Len(arrays)
    THEN [L EXCEPT !.retProps = next_properties]
    ELSE LET name == PartPropName(kind, i)
             L1 == DoStoreArrowArrayAtName(L, h, name, arrays[i + 1])
         IN  WritePartLoop(L1, h, kind, arrays, i + 1,
                           IF L1.status = "run"
                           THEN Append(next_properties,
                                       PropStorageInfo(name, L1.retPath, TRUE))
                           ELSE next_properties)

WritePartArrays(L, h, r) ==
    LET L1 == WritePartLoop(L, h, "mirror", r.mirror_nodes, 0, << >>)
        L2 == WritePartLoop(L1, h, "master", r.master_nodes, 0, L1.retProps)
        L3 == IF r.local_to_global_vector # "null"
              THEN DoStoreArrowArrayAtName(L2, h, kLocalToTGlobalPropName,
                                           r.local_to_global_vector)
              ELSE L2
    IN  IF L3.status # "run" \/ r.local_to_global_vector = "null" THEN L3
        ELSE [L3 EXCEPT !.retProps =
                  Append(L2.retProps,
                         PropStorageInfo(kLocalToTGlobalPropName, L3.retPath, TRUE))]

\* RDGPartHeader::Write(handle, write_group): the header goes to the
\* partition file of the version being committed.
PartHeaderWrite(L, h, version) ==
    LET L1 == Fallible(L, "IOError")
        L2 == PTP(L1, "before_header")
        L3 == StartStore(L2, PartitionFileName(h, version + 1), L2.hdr)
    IN  PTP(L3, "after_header")

\* A topology write: RandFile, checkpoint, StartStore, checkpoint,
\* set_topology_path (RDG::Store with a FileFrame, and DoStore without one).
TopologyWrite(L, h) ==
    IF L.status # "run" THEN L
    ELSE LET t_path == RandFile(h, "topology", L.rand)
             L1 == PTP(L, "topology")
             L2 == IF L1.status # "run" THEN L1
                   ELSE [StartStore(L1, t_path, "topology") EXCEPT !.ntopo = @ + 1]
             L3 == PTP(L2, "topology")
         IN  IF L3.status # "run" THEN L3
             ELSE [L3 EXCEPT !.hdr.topology_path = t_path]

SetNodeProps(L) ==
    IF L.status # "run" THEN L ELSE [L EXCEPT !.hdr.node_prop_info_list = L.retProps]

SetEdgeProps(L) ==
    IF L.status # "run" THEN L ELSE [L EXCEPT !.hdr.edge_prop_info_list = L.retProps]

SetPartProps(L) ==
    IF L.status # "run" THEN L ELSE [L EXCEPT !.hdr.part_prop_info_list = L.retProps]

\* DoStore writing the topology buffer whatever the header records.
NoTopologyYetAlways(hdr) == TRUE

\* if (core_->part_header().topology_path().empty())
NoTopologyYet(hdr) == hdr.topology_path = NoPath

\* DoStore writing the header before the tables and the boundary arrays.
DoStoreWritesHeaderFirst(L, h, r, version) ==
    LET L1 == IF L.status = "run" /\ NoTopologyYet(L.hdr)
              THEN TopologyWrite(L, h) ELSE L
        L2 == PartHeaderWrite(L1, h, version)
        L3 == SetNodeProps(WriteTable(L2, h, r.node_table, L2.hdr.node_prop_info_list))
        L4 == SetEdgeProps(WriteTable(L3, h, r.edge_table, L3.hdr.edge_prop_info_list))
    IN  SetPartProps(WritePartArrays(L4, h, r))

\* RDG::DoStore up to the call of CommitRDG.
DoStoreWrites(L, h, r, version) ==
    LET L1 == IF L.status = "run" /\ NoTopologyYet(L.hdr)
              THEN TopologyWrite(L, h) ELSE L
        L2 == SetNodeProps(WriteTable(L1, h, r.node_table, L1.hdr.node_prop_info_list))
        L3 == SetEdgeProps(WriteTable(L2, h, r.edge_table, L2.hdr.edge_prop_info_list))
        L4 == SetPartProps(WritePartArrays(L3, h, r))
    IN  PartHeaderWrite(L4, h, version)

\* RDGHandleImpl::AllowsWrite and AllowsRead: a handle is opened read-write,
\* read-only or for partial reads; a full read is refused only to the last.
kReadWrite == "ReadWrite"
kReadOnly == "ReadOnly"
kReadPartial == "ReadPartial"

AllowsWrite(f) == f = kReadWrite

AllowsRead(f) == f # kReadPartial

\* Store leaving the header bound whatever the directory.
StoreHeaderInNeverUnbound(r) == r.header

\* The header RDG::Store works on: unbound from storage when the handle's
\* directory is not the one the RDG was loaded from.
StoreHeaderIn(r) ==
    IF Dir # r.rdg_dir THEN UnbindFromStorage(r.header) ELSE r.header

\* RDG::Store up to the call of CommitRDG, for the given faults.
StoreWrites(h, ff, failAt, crashAt) ==
    LET r == rdg[h]
        L0 == [ hdr |-> StoreHeaderIn(r),
                wg |-> {}, rand |-> nstores[h] + 1, calls |-> 0, ptps |-> 0,
                status |-> "run", at |-> "", failAt |-> failAt, crashAt |-> crashAt,
                retPath |-> NoPath, retPaths |-> << >>, retProps |-> << >>,
                ff |-> ff, ntopo |-> 0 ]
        L1 == WriteGroupMake(L0)
        L2 == IF ff THEN TopologyWrite(L1, h) ELSE L1
    IN  DoStoreWrites(L2, h, r, handle[h].version)

\* ------------------------------------------------------------------ initial state
\* An RDG as RDG::Make leaves it after loading the initial version on host h,
\* with a node column "n1" added since by AddNodeProperties and marked
\* persistent: the one column that is not on storage yet.
LoadedRDG(h) ==
    [ header |-> [ InitHeader(h) EXCEPT !.node_prop_info_list =
                       Append(@, PropStorageInfo("n1", NoPath, TRUE)) ],
      rdg_dir |-> Dir,
      node_table |-> << "n0", "n1" >>, edge_table |-> << "e0" >>,
      mirror_nodes |-> << >>, master_nodes |-> << >>,
      local_to_global_vector |-> "null", lineage |-> << >> ]

\* A default-constructed RDG whose tables and boundary arrays were filled in
\* memory and marked persistent: nothing of it is on storage.
FreshRDG(h) ==
    [ header |-> [ UnbindFromStorage(InitHeader(h)) EXCEPT !.part_prop_info_list = << >> ],
      rdg_dir |-> NoDir,
      node_table |-> << "n0" >>, edge_table |-> << "e0" >>,
      mirror_nodes |-> << "mirror0" >>, master_nodes |-> << >>,
      local_to_global_vector |-> "null", lineage |-> << >> ]

\* Another directory, and the name of a file that Store generated there.
OtherDir == "E"

OtherDirFile(h, name) == RandFile(h, name, MaxStores + 1)

\* An RDG as RDG::Make leaves it after loading a version of OtherDir on host
\* h: every column, the boundary array and the topology are on storage
\* there, under the names the header records.
ElsewhereRDG(h) ==
    [ header |->
        [ topology_path |-> OtherDirFile(h, "topology"),
          node_prop_info_list |-> << PropStorageInfo("n0", OtherDirFile(h, "n0"), TRUE) >>,
          edge_prop_info_list |-> << PropStorageInfo("e0", OtherDirFile(h, "e0"), TRUE) >>,
          part_prop_info_list |->
              << PropStorageInfo(MirrorPropName(0), OtherDirFile(h, MirrorPropName(0)), TRUE) >> ],
      rdg_dir |-> OtherDir,
      node_table |-> << "n0" >>, edge_table |-> << "e0" >>,
      mirror_nodes |-> << "mirror0" >>, master_nodes |-> << >>,
      local_to_global_vector |-> "null", lineage |-> << >> ]

\* The RDGs a job starts with.
RDGKinds == {"loaded", "fresh", "elsewhere"}

StartRDG(kind, h) ==
    IF kind = "loaded" THEN LoadedRDG(h)
    ELSE IF kind = "fresh" THEN FreshRDG(h)
    ELSE ElsewhereRDG(h)

NoCall ==
    [ preNS |-> InitMeta, preMeta |-> InitMeta, target |-> 0, crashedAt |-> "",
      finish |-> "none", update |-> "none", wrotePtr |-> FALSE, foreign |-> FALSE,
      preHeader |-> InitHeader(0), inHeader |-> InitHeader(0), preLineage |-> << >>,
      prevResult |-> "none", started |-> {}, preBar |-> 0, ff |-> FALSE,
      ntopo |-> 0 ]

\* The header of a default-constructed RDG.
NoHeader ==
    [ topology_path |-> NoPath, node_prop_info_list |-> << >>,
      edge_prop_info_list |-> << >>, part_prop_info_list |-> << >> ]

\* A default-constructed RDG.
NoRDG ==
    [ header |-> NoHeader, rdg_dir |-> NoDir, node_table |-> << >>,
      edge_table |-> << >>, mirror_nodes |-> << >>, master_nodes |-> << >>,
      local_to_global_vector |-> "null", topology |-> "none" ]

\* A property filter of Make: a null pointer, or the names asked for.
NullProps == [given |-> FALSE, names |-> {}]

Props(names) == [given |-> TRUE, names |-> names]

\* No PropertyFileGraph is looked at.
NoGraph ==
    [ out_indices |-> << >>, out_dests |-> << >>,
      node_schema |-> << >>, edge_schema |-> << >>,
      op |-> "none", args |-> << >>, ret |-> << >> ]

\* WriteTable was not called.
NoWrite ==
    [ schema |-> << >>, properties |-> << >>, status |-> "none",
      ret |-> << >>, next_paths |-> << >>, started |-> {} ]

\* No subgraph search is run.
NoSearch == [ algo |-> "none" ]

\* No RDG::Make was called yet.
NoMake ==
    [ status |-> "none", error |-> "", cause |-> "", step |-> "", host |-> 0,
      meta |-> InitMeta, flags |-> "", node_props |-> NullProps,
      edge_props |-> NullProps, reads |-> {}, rdg |-> NoRDG ]


\* The files of the initial version, all durable.
InitBlob ==
    Durable( << >>,
             {File(FileName(InitMeta.version), InitMeta)}
             \cup {File(PartitionFileName(h, InitMeta.version), InitHeader(h)) : h \in Hosts}
             \cup UNION {{File(p, p.name) : p \in HeaderFiles(InitHeader(h))} : h \in Hosts} )

Init ==
    /\ pc = [h \in Hosts |-> "idle"]
    /\ handle = [h \in Hosts |-> InitMeta]
    /\ new_meta = [h \in Hosts |-> InitMeta]
    /\ \E kind \in RDGKinds : rdg = [h \in Hosts |-> StartRDG(kind, h)]
    /\ write_group = [h \in Hosts |-> {}]
    /\ result = [h \in Hosts |-> "none"]
    /\ nstores = [h \in Hosts |-> 0]
    /\ ns = InitMeta
    /\ blob = InitBlob
    /\ barCount = [h \in Hosts |-> 0]
    /\ bcast = << >>
    /\ ohoCount = [h \in Hosts |-> 0]
    /\ nforeign = 0
    /\ nfaults = 0
    /\ nsHist = << [meta |-> InitMeta, by |-> "init"] >>
    /\ call = [h \in Hosts |-> NoCall]
    /\ finished = [h \in Hosts |-> {}]
    /\ flags = [h \in Hosts |-> kReadWrite]
    /\ made = NoMake
    /\ pg = NoGraph
    /\ wt = NoWrite
    /\ search = NoSearch

\* ------------------------------------------------------------------ RDG::Store, local part
\* RDG::Store and RDG::DoStore up to CommitRDG's first checkpoint.  A call
\* that fails or is aborted leaves any subset of its enqueued writes durable.
\* What Store is observed to start from.
CallStart(h) ==
    [ NoCall EXCEPT !.preNS = ns, !.preMeta = handle[h],
                    !.target = handle[h].version + 1,
                    !.preHeader = rdg[h].header,
                    !.inHeader = StoreHeaderIn(rdg[h]),
                    !.preLineage = rdg[h].lineage,
                    !.prevResult = result[h],
                    !.preBar = barCount[h] ]

\* What the local part L of a Store call leaves: on to CommitRDG, or out with
\* the error, or aborted.
StoreEffect(h, L, c, lineage) ==
    /\ rdg' = IF L.status = "crashed" THEN rdg
               ELSE [rdg EXCEPT ![h].header = L.hdr, ![h].lineage = lineage]
    /\ IF L.status = "run"
       THEN /\ pc' = [pc EXCEPT ![h] = "ptp158"]
            /\ new_meta' = [new_meta EXCEPT ![h] =
                              NextVersion(handle[h], NumHosts, lineage)]
            /\ write_group' = [write_group EXCEPT ![h] = L.wg]
            /\ result' = [result EXCEPT ![h] = "none"]
            /\ call' = [call EXCEPT ![h] = c]
            /\ blob' = blob
       ELSE /\ pc' = [pc EXCEPT ![h] =
                        IF L.status = "failed" THEN "idle" ELSE "crashed"]
            /\ result' = [result EXCEPT ![h] =
                            IF L.status = "failed" THEN L.at ELSE "none"]
            /\ call' = [call EXCEPT ![h] =
                          IF L.status = "failed" THEN c
                          ELSE [c EXCEPT !.crashedAt = L.at]]
            /\ \E S \in Losses(L.wg) \cup {L.wg} : blob' = Durable(blob, S)
            /\ UNCHANGED << new_meta, write_group >>

\* DoStore's lineage_.AddCommandLine(command_line), reached when nothing
\* failed before it.
AddLineage(L, lineage, command_line) ==
    IF L.status = "run" THEN Append(lineage, command_line) ELSE lineage

\* The writes the call started, and whether it was given a FileFrame.
Started(L, c) == [c EXCEPT !.started = {f.path : f \in L.wg}, !.ff = L.ff,
                           !.ntopo = L.ntopo]

\* One Store call with its faults: clean is the call without any.
StoreAttempt(h, ff, clean) ==
    \E failAt \in 0 .. clean.calls, crashAt \in 0 .. clean.ptps :
        /\ failAt = 0 \/ crashAt = 0
        /\ (failAt # 0 \/ crashAt # 0) => nfaults < MaxFaults
        /\ nfaults' = IF failAt # 0 \/ crashAt # 0 THEN nfaults + 1 ELSE nfaults
        /\ StoreEffect(h, StoreWrites(h, ff, failAt, crashAt),
                       Started(StoreWrites(h, ff, failAt, crashAt), CallStart(h)),
                       AddLineage(StoreWrites(h, ff, failAt, crashAt), rdg[h].lineage,
                                  "store" \o ToString(nstores[h] + 1)))

StoreCall(h) ==
    /\ pc[h] = "idle"
    /\ nstores[h] < MaxStores
    /\ IF ~AllowsWrite(flags[h])
       THEN /\ result' = [result EXCEPT ![h] = "InvalidArgument"]
            /\ call' = [call EXCEPT ![h] = CallStart(h)]
            /\ UNCHANGED << pc, rdg, new_meta, write_group, blob, nfaults >>
       ELSE \E ff \in BOOLEAN : StoreAttempt(h, ff, StoreWrites(h, ff, 0, 0))
    /\ nstores' = [nstores EXCEPT ![h] = @ + 1]
    /\ UNCHANGED << handle, ns, barCount, bcast, ohoCount, nforeign, nsHist, finished >>
    /\ UNCHANGED << flags, made, pg, wt, search >>

\* ------------------------------------------------------------------ CommitRDG
\* CommitRDG going on after a failed Finish.
AfterFinishIgnoringFailure(ok) == "ptp163"

\* Where CommitRDG goes after desc->Finish(): on, or out with the error.
AfterFinish(ok) == IF ok THEN "ptp163" ELSE "return"

\* CommitRDG without the call of comm->Barrier().
AfterPTP163NoBarrier == "update"

\* After the checkpoint that follows Finish: comm->Barrier().
AfterPTP163 == "barrier"

\* After the barrier: tsuba::NS()->Update(dir, version, new_meta).
AfterBarrier == "update"

\* After Update: its failure is logged, and CommitRDG goes on either way.
AfterUpdate(res) == "ptp176"

\* CommitRDG running the callback on every host.
AfterPTP176EveryHost(h) == "ptp178"

\* After the checkpoint that follows Update: tsuba::OneHostOnly(callback).
AfterPTP176(h) == IF h = ElectedHost THEN "ptp178" ELSE "oho_wait"

\* set_rdg_meta without the test of ret.
AdvanceHandleAlways(ret, old_meta, next_meta) == next_meta

\* if (ret) handle.impl_->set_rdg_meta(std::move(new_meta));
AdvanceHandle(ret, old_meta, next_meta) == IF ret = "ok" THEN next_meta ELSE old_meta

\* WriteGroup::Finish: joins the enqueued writes; S is the set that became
\* durable, and the result is success exactly when that is all of them.
Finish(h) ==
    /\ pc[h] = "ptp158"
    /\ \E S \in Losses(write_group[h]) \cup {write_group[h]} :
         LET ok == (S = write_group[h])
             next == AfterFinish(ok)
         IN  /\ ~ok => nfaults < MaxFaults
             /\ nfaults' = IF ok THEN nfaults ELSE nfaults + 1
             /\ blob' = Durable(blob, S)
             /\ pc' = [pc EXCEPT ![h] = IF next = "return" THEN "idle" ELSE next]
             /\ result' = [result EXCEPT ![h] = IF next = "return" THEN "IOError" ELSE @]
             /\ call' = [call EXCEPT ![h].finish = IF ok THEN "ok" ELSE "failed"]
             /\ finished' = [finished EXCEPT ![h] =
                               IF ok THEN @ \cup {call[h].target} ELSE @]
    /\ write_group' = [write_group EXCEPT ![h] = {}]
    /\ UNCHANGED << handle, new_meta, rdg, nstores, ns, barCount, bcast,
                    ohoCount, nforeign, nsHist >>
    /\ UNCHANGED << flags, made, pg, wt, search >>

\* The checkpoint after Finish is passed and comm->Barrier() is entered.
BarrierEnter(h) ==
    /\ pc[h] = "ptp163"
    /\ pc' = [pc EXCEPT ![h] = AfterPTP163]
    /\ barCount' = [barCount EXCEPT ![h] = IF AfterPTP163 = "barrier" THEN @ + 1 ELSE @]
    /\ UNCHANGED << handle, new_meta, rdg, write_group, result, nstores, ns,
                    blob, bcast, ohoCount, nforeign, nfaults, nsHist, call, finished >>
    /\ UNCHANGED << flags, made, pg, wt, search >>

\* CommBackend::Barrier: the k-th call of a host returns once every host has
\* made its k-th call.
BarrierReleased(h) == \A g \in Hosts : barCount[g] >= barCount[h]

BarrierLeave(h) ==
    /\ pc[h] = "barrier"
    /\ BarrierReleased(h)
    /\ pc' = [pc EXCEPT ![h] = AfterBarrier]
    /\ UNCHANGED << handle, new_meta, rdg, write_group, result, nstores, ns,
                    blob, barCount, bcast, ohoCount, nforeign, nfaults, nsHist, call, finished >>
    /\ UNCHANGED << flags, made, pg, wt, search >>

\* NameServerClient::Update(dir, old_version, meta), as seen by the service:
\* compare-and-update, or an error that changes nothing.
UpdateOutcome(latest, old_version, err) ==
    IF err THEN "error"
    ELSE IF latest.version = old_version THEN "ok" ELSE "conflict"

\* The naming service coordinates the hosts of a job: the request is made by
\* the elected host.
NSUpdate(h) ==
    /\ pc[h] = "update"
    /\ \E err \in BOOLEAN :
         LET res == IF h = ElectedHost
                    THEN UpdateOutcome(ns, handle[h].version, err)
                    ELSE "skipped"
         IN  /\ h # ElectedHost => ~err
             /\ err => nfaults < MaxFaults
             /\ nfaults' = IF err THEN nfaults + 1 ELSE nfaults
             /\ ns' = IF res = "ok" THEN new_meta[h] ELSE ns
             /\ nsHist' = IF res = "ok"
                          THEN Append(nsHist, [meta |-> new_meta[h], by |-> "job"])
                          ELSE nsHist
             /\ call' = [call EXCEPT ![h].update = res]
             /\ pc' = [pc EXCEPT ![h] = AfterUpdate(res)]
    /\ UNCHANGED << handle, new_meta, rdg, write_group, result, nstores,
                    blob, barCount, bcast, ohoCount, nforeign, finished >>
    /\ UNCHANGED << flags, made, pg, wt, search >>

\* The checkpoint after Update is passed and OneHostOnly is entered.
PassPTP176(h) ==
    /\ pc[h] = "ptp176"
    /\ pc' = [pc EXCEPT ![h] = AfterPTP176(h)]
    /\ UNCHANGED << handle, new_meta, rdg, write_group, result, nstores, ns,
                    blob, barCount, bcast, ohoCount, nforeign, nfaults, nsHist, call, finished >>
    /\ UNCHANGED << flags, made, pg, wt, search >>

\* The callback of OneHostOnly on the elected host: FileStore of the
\* metadata-pointer file; its result is shared with every host; then the end
\* of CommitRDG, DoStore and Store.
FileStoreMeta(h) ==
    /\ pc[h] = "ptp178"
    /\ \E ok \in BOOLEAN :
         LET ret == IF ok THEN "ok" ELSE "IOError"
         IN  /\ ~ok => nfaults < MaxFaults
             /\ nfaults' = IF ok THEN nfaults ELSE nfaults + 1
             /\ blob' = IF ok
                        THEN Durable(blob, {File(FileName(new_meta[h].version), new_meta[h])})
                        ELSE blob
             /\ bcast' = Append(bcast, ret)
             /\ call' = [call EXCEPT ![h].wrotePtr = ok]
             /\ handle' = [handle EXCEPT ![h] = AdvanceHandle(ret, @, new_meta[h])]
             /\ result' = [result EXCEPT ![h] = ret]
    /\ ohoCount' = [ohoCount EXCEPT ![h] = @ + 1]
    /\ pc' = [pc EXCEPT ![h] = "idle"]
    /\ UNCHANGED << new_meta, rdg, write_group, nstores, ns, barCount,
                    nforeign, nsHist, finished >>
    /\ UNCHANGED << flags, made, pg, wt, search >>

\* OneHostOnly whose result is not shared: a host that did not run the
\* callback reports success.
OneHostOnlyWaitOwnResult(h) ==
    /\ pc[h] = "oho_wait"
    /\ Len(bcast) > ohoCount[h]
    /\ handle' = [handle EXCEPT ![h] = AdvanceHandle("ok", @, new_meta[h])]
    /\ result' = [result EXCEPT ![h] = "ok"]
    /\ ohoCount' = [ohoCount EXCEPT ![h] = @ + 1]
    /\ pc' = [pc EXCEPT ![h] = "idle"]
    /\ UNCHANGED << new_meta, rdg, write_group, nstores, ns, blob, barCount,
                    bcast, nforeign, nfaults, nsHist, call, finished >>
    /\ UNCHANGED << flags, made, pg, wt, search >>

\* OneHostOnly on the other hosts: wait for the elected host's result; then
\* the end of CommitRDG, DoStore and Store.
OneHostOnlyWait(h) ==
    /\ pc[h] = "oho_wait"
    /\ Len(bcast) > ohoCount[h]
    /\ LET ret == bcast[ohoCount[h] + 1]
       IN  /\ handle' = [handle EXCEPT ![h] = AdvanceHandle(ret, @, new_meta[h])]
           /\ result' = [result EXCEPT ![h] = ret]
    /\ ohoCount' = [ohoCount EXCEPT ![h] = @ + 1]
    /\ pc' = [pc EXCEPT ![h] = "idle"]
    /\ UNCHANGED << new_meta, rdg, write_group, nstores, ns, blob, barCount,
                    bcast, nforeign, nfaults, nsHist, call, finished >>
    /\ UNCHANGED << flags, made, pg, wt, search >>

\* Execution aborted at one of CommitRDG's fault checkpoints.  Writes still
\* in flight may or may not reach storage.
CommitCheckpoints == {"ptp158", "ptp163", "ptp176", "ptp178"}

Crash(h) ==
    /\ pc[h] \in CommitCheckpoints
    /\ nfaults < MaxFaults
    /\ nfaults' = nfaults + 1
    /\ pc' = [pc EXCEPT ![h] = "crashed"]
    /\ call' = [call EXCEPT ![h].crashedAt = pc[h]]
    /\ \E S \in Losses(write_group[h]) \cup {write_group[h]} : blob' = Durable(blob, S)
    /\ write_group' = [write_group EXCEPT ![h] = {}]
    /\ UNCHANGED << handle, new_meta, rdg, result, nstores, ns, barCount,
                    bcast, ohoCount, nforeign, nsHist, finished >>
    /\ UNCHANGED << flags, made, pg, wt, search >>

\* ------------------------------------------------------------------ another writer
\* The header another writer stores for host g in version v.
ForeignHeader(g, v) ==
    [ topology_path |-> RandFile(g, "foreign_topology", v),
      node_prop_info_list |-> << >>, edge_prop_info_list |-> << >>,
      part_prop_info_list |-> << >> ]

\* Another job commits the next version of Dir, completely.
ForeignCommit ==
    /\ nforeign < MaxForeign
    /\ LET next == NextVersion(ns, NumHosts, Append(ns.lineage, "foreign"))
           v == next.version
       IN  /\ ns' = next
           /\ nsHist' = Append(nsHist, [meta |-> next, by |-> "foreign"])
           /\ blob' = Durable(blob,
                  {File(FileName(v), next)}
                  \cup {File(PartitionFileName(g, v), ForeignHeader(g, v)) : g \in Hosts}
                  \cup {File(ForeignHeader(g, v).topology_path, "data") : g \in Hosts})
    /\ nforeign' = nforeign + 1
    /\ call' = [h \in Hosts |-> [call[h] EXCEPT !.foreign = TRUE]]
    /\ UNCHANGED << pc, handle, new_meta, rdg, write_group, result, nstores,
                    barCount, bcast, ohoCount, nfaults, finished >>
    /\ UNCHANGED << flags, made, pg, wt, search >>

\* ------------------------------------------------------------------ RDG::Make
\* RDGMeta::IsEmptyRDG: a directory that was created and never committed to.
IsEmptyRDG(meta) == meta.num_hosts = 0

RECURSIVE SelectProps(_, _)
SelectProps(properties, names) ==
    IF properties = << >> THEN << >>
    ELSE (IF Head(properties).name \in names THEN << Head(properties) >> ELSE << >>)
         \o SelectProps(Tail(properties), names)

\* RDGPartHeader::PrunePropsTo: the node and edge lists keep the entries that
\* were asked for; a null filter keeps the list.
PrunePropsTo(hdr, node_props, edge_props) ==
    [ hdr EXCEPT
        !.node_prop_info_list =
            IF node_props.given THEN SelectProps(@, node_props.names) ELSE @,
        !.edge_prop_info_list =
            IF edge_props.given THEN SelectProps(@, edge_props.names) ELSE @ ]

\* A Make call is run as one step that threads a record M through the
\* statements: the RDG being built, the files read, the fallible calls
\* passed and the failure met.  failAt picks the fallible call that fails
\* (0: none); ub is what edge_result.error() yields for a result that holds
\* no error.
MakeStart(failAt, ub) ==
    [ status |-> "run", error |-> "", cause |-> "", step |-> "",
      calls |-> 0, failAt |-> failAt, ub |-> ub, reads |-> {},
      hdr |-> NoHeader, node_table |-> << >>, edge_table |-> << >>,
      mirror_nodes |-> << >>, master_nodes |-> << >>,
      local_to_global_vector |-> "null", topology |-> "none", rdg_dir |-> NoDir ]

\* return <error>; at the given step
MakeFail(M, step, error) ==
    [M EXCEPT !.status = "failed", !.error = error, !.cause = error, !.step = step]

\* A fallible call of Make that reads nothing.
MakeFallible(M, step, error) ==
    IF M.status # "run" THEN M
    ELSE IF M.calls + 1 = M.failAt
         THEN MakeFail([M EXCEPT !.calls = @ + 1], step, error)
         ELSE [M EXCEPT !.calls = @ + 1]

\* Reading one file of the blob store: fails when the store does, or when
\* the file is not there.
ReadFile(M, path, step) ==
    IF M.status # "run" THEN M
    ELSE IF M.calls + 1 = M.failAt \/ path \notin DOMAIN blob
         THEN MakeFail([M EXCEPT !.calls = @ + 1], step, "IOError")
         ELSE [M EXCEPT !.calls = @ + 1, !.reads = @ \cup {path}]

\* name.find(prefix) == 0
StartsWith(name, prefix) ==
    Len(name) >= Len(prefix) /\ SubSeq(name, 1, Len(prefix)) = prefix

\* RDG::AddPartitionMetadataArray
AddPartitionMetadataArray(M, name, col) ==
    IF StartsWith(name, kMirrorNodesPropName)
    THEN [M EXCEPT !.mirror_nodes = Append(@, col)]
    ELSE IF StartsWith(name, kMasterNodesPropName)
    THEN [M EXCEPT !.master_nodes = Append(@, col)]
    ELSE IF name = kLocalToTGlobalPropName
    THEN [M EXCEPT !.local_to_global_vector = col]
    ELSE MakeFail(M, "part", "InvalidArgument")

\* The callbacks DoMake hands to AddTables.
AddColumn(M, kind, name, col) ==
    IF M.status # "run" THEN M
    ELSE IF kind = "node" THEN [M EXCEPT !.node_table = Append(@, col)]
    ELSE IF kind = "edge" THEN [M EXCEPT !.edge_table = Append(@, col)]
    ELSE AddPartitionMetadataArray(M, name, col)

\* AddTables, for one entry: a persisted attribute is fetched and handed to
\* the callback.
AddTable(M, kind, e) ==
    IF M.status # "run" \/ e.path = NoPath THEN M
    ELSE AddColumn(ReadFile(M, e.path, kind), kind, e.name,
                   IF e.path \in DOMAIN blob THEN blob[e.path] ELSE "none")

RECURSIVE AddTables(_, _, _, _)
AddTables(M, kind, properties, i) ==
    IF M.status # "run" \/ i > Len(properties) THEN M
    ELSE AddTables(AddTable(M, kind, properties[i]), kind, properties, i + 1)

\* DoMake loading no partition-boundary column.
LoadsPartTablesNever(part_prop_info_list) == FALSE

\* if (!part_prop_info_list.empty())
LoadsPartTables(part_prop_info_list) == part_prop_info_list # << >>

\* What edge_result.error() can yield when edge_result holds no error: an
\* exception out of Make, or an error code that says success.
NoErrorOutcomes == {"throws", "Success"}

\* if (!part_result) return edge_result.error();
PartResult(M) ==
    IF M.status # "failed" THEN M
    ELSE IF M.ub = "throws"
         THEN [M EXCEPT !.status = "threw", !.error = "bad_result_access"]
         ELSE [M EXCEPT !.error = M.ub]

DoMakeNodesFromEdgeList(M) == AddTables(M, "node", M.hdr.edge_prop_info_list, 1)

DoMakeNodes(M) == AddTables(M, "node", M.hdr.node_prop_info_list, 1)

DoMakeEdges(M) == AddTables(M, "edge", M.hdr.edge_prop_info_list, 1)

DoMakeParts(M) ==
    IF M.status = "run" /\ LoadsPartTables(M.hdr.part_prop_info_list)
    THEN PartResult(AddTables(M, "part", M.hdr.part_prop_info_list, 1))
    ELSE M

\* topology_file_storage().Bind(t_path), then rdg_dir_ = metadata_dir
BindTopology(M) ==
    IF M.status # "run" THEN M
    ELSE [M EXCEPT !.topology = blob[M.hdr.topology_path], !.rdg_dir = Dir]

ReadTopology(M) ==
    IF M.status # "run" THEN M ELSE ReadFile(M, M.hdr.topology_path, "topology")

\* RDG::DoMake
DoMake(M) == BindTopology(ReadTopology(DoMakeParts(DoMakeEdges(DoMakeNodes(M)))))

SetHeader(M, path) ==
    IF M.status # "run" THEN M ELSE [M EXCEPT !.hdr = blob[path]]

\* RDGPartHeader::Make(partition_path)
ReadHeader(M, path) == SetHeader(ReadFile(M, path, "header"), path)

PruneTo(M, node_props, edge_props) ==
    IF M.status # "run" THEN M
    ELSE [M EXCEPT !.hdr = PrunePropsTo(@, node_props, edge_props)]

Prune(M, node_props, edge_props) ==
    PruneTo(MakeFallible(M, "prune", "InvalidArgument"), node_props, edge_props)

\* The host-count test without the exemption of an empty RDG.
HostsMismatchAlsoEmpty(meta) == meta.num_hosts # NumHosts

\* if (!meta.IsEmptyRDG() && meta.num_hosts() != Comm()->Num)
HostsMismatch(meta) == ~IsEmptyRDG(meta) /\ meta.num_hosts # NumHosts

\* RDG::Make(meta, node_props, edge_props) on host h
Make(M, h, meta, node_props, edge_props) ==
    IF HostsMismatch(meta) THEN MakeFail(M, "hosts", "InvalidArgument")
    ELSE DoMake(Prune(ReadHeader(M, PartitionFileName(h, meta.version)),
                      node_props, edge_props))

\* Make reading through a handle that does not allow it.
MayReadAlways(f) == TRUE

\* if (!handle.impl_->AllowsRead()) return ErrorCode::InvalidArgument;
MayRead(f) == AllowsRead(f)

\* RDG::Make(handle, node_props, edge_props) on host h
MakeFromHandle(M, h, node_props, edge_props) ==
    IF ~MayRead(flags[h]) THEN MakeFail(M, "handle", "InvalidArgument")
    ELSE Make(M, h, handle[h], node_props, edge_props)

\* What Make returns: the RDG, or the error and nothing else.
MakeResult(M, h, node_props, edge_props) ==
    [ status |-> IF M.status = "run" THEN "ok" ELSE M.status,
      error |-> M.error, cause |-> M.cause, step |-> M.step,
      host |-> h, meta |-> handle[h], flags |-> flags[h],
      node_props |-> node_props, edge_props |-> edge_props, reads |-> M.reads,
      rdg |-> IF M.status # "run" THEN NoRDG
              ELSE [ header |-> M.hdr, rdg_dir |-> M.rdg_dir,
                     node_table |-> M.node_table, edge_table |-> M.edge_table,
                     mirror_nodes |-> M.mirror_nodes, master_nodes |-> M.master_nodes,
                     local_to_global_vector |-> M.local_to_global_vector,
                     topology |-> M.topology ] ]

\* The filters Make is called with.
NodeFilters == {NullProps, Props({}), Props({"n0"}), Props({"n1", "absent"})}

EdgeFilters == {NullProps, Props({"e0"})}

\* RDG::Make called with the given filters on a host that is not inside
\* Store; failAt and ub as in MakeStart.
MakeWith(h, node_props, edge_props, failAt, ub) ==
    /\ pc[h] = "idle"
    /\ made' = MakeResult(MakeFromHandle(MakeStart(failAt, ub), h, node_props, edge_props),
                          h, node_props, edge_props)
    /\ UNCHANGED << pc, handle, new_meta, rdg, write_group, result, nstores, ns, blob,
                    barCount, bcast, ohoCount, nforeign, nfaults, nsHist, call,
                    finished, flags, pg, wt, search >>

\* The fallible calls of a Make call in which none fails.
MakeCalls(h, node_props, edge_props) ==
    MakeFromHandle(MakeStart(0, "throws"), h, node_props, edge_props).calls

\* RDG::Make with any filters and any one failure.
MakeCall(h) ==
    \E node_props \in NodeFilters, edge_props \in EdgeFilters, ub \in NoErrorOutcomes :
        \E failAt \in 0 .. MakeCalls(h, node_props, edge_props) :
            MakeWith(h, node_props, edge_props, failAt, ub)

\* ------------------------------------------------------------------ mutation of the tables
\* The name of the column a caller adds: one the table does not hold yet.
FreshName(prefix, table) ==
    LET used == {table[i] : i \in DOMAIN table}
        k == CHOOSE k \in 0 .. Len(table) :
                 /\ (prefix \o ToString(k)) \notin used
                 /\ \A j \in 0 .. k - 1 : (prefix \o ToString(j)) \in used
    IN  prefix \o ToString(k)

\* A sequence without its i-th element.
RemoveAt(seq, i) == SubSeq(seq, 1, i - 1) \o SubSeq(seq, i + 1, Len(seq))

\* AddNodeProperties without the header's new entry.
AddNodePropertiesNoEntry(h) ==
    /\ pc[h] = "idle"
    /\ Len(rdg[h].node_table) < MaxNodeColumns
    /\ rdg' = [rdg EXCEPT ![h].node_table = Append(@, FreshName("n", @))]
    /\ UNCHANGED << pc, handle, new_meta, write_group, result, nstores, ns, blob,
                    barCount, bcast, ohoCount, nforeign, nfaults, nsHist, call,
                    finished, flags, made, pg, wt, search >>

\* RDG::AddNodeProperties: the column joins the table and gets a storage-info
\* entry with an empty path; persist is left to its default.
AddNodeProperties(h) ==
    /\ pc[h] = "idle"
    /\ Len(rdg[h].node_table) < MaxNodeColumns
    /\ LET name == FreshName("n", rdg[h].node_table)
       IN  rdg' = [rdg EXCEPT
                     ![h].node_table = Append(@, name),
                     ![h].header.node_prop_info_list =
                         Append(@, PropStorageInfo(name, NoPath, FALSE))]
    /\ UNCHANGED << pc, handle, new_meta, write_group, result, nstores, ns, blob,
                    barCount, bcast, ohoCount, nforeign, nfaults, nsHist, call,
                    finished, flags, made, pg, wt, search >>

\* RDG::AddEdgeProperties
AddEdgeProperties(h) ==
    /\ pc[h] = "idle"
    /\ Len(rdg[h].edge_table) < MaxEdgeColumns
    /\ LET name == FreshName("e", rdg[h].edge_table)
       IN  rdg' = [rdg EXCEPT
                     ![h].edge_table = Append(@, name),
                     ![h].header.edge_prop_info_list =
                         Append(@, PropStorageInfo(name, NoPath, FALSE))]
    /\ UNCHANGED << pc, handle, new_meta, write_group, result, nstores, ns, blob,
                    barCount, bcast, ohoCount, nforeign, nfaults, nsHist, call,
                    finished, flags, made, pg, wt, search >>

\* RDG::RemoveNodeProperty(i) (i counts from 0): RDGCore drops the column
\* and the header's entry of that index.
RemoveNodeProperty(h, i) ==
    /\ pc[h] = "idle"
    /\ i < Len(rdg[h].node_table)
    /\ rdg' = [rdg EXCEPT
                 ![h].node_table = RemoveAt(@, i + 1),
                 ![h].header.node_prop_info_list = RemoveAt(@, i + 1)]
    /\ UNCHANGED << pc, handle, new_meta, write_group, result, nstores, ns, blob,
                    barCount, bcast, ohoCount, nforeign, nfaults, nsHist, call,
                    finished, flags, made, pg, wt, search >>

\* RDG::RemoveEdgeProperty(i)
RemoveEdgeProperty(h, i) ==
    /\ pc[h] = "idle"
    /\ i < Len(rdg[h].edge_table)
    /\ rdg' = [rdg EXCEPT
                 ![h].edge_table = RemoveAt(@, i + 1),
                 ![h].header.edge_prop_info_list = RemoveAt(@, i + 1)]
    /\ UNCHANGED << pc, handle, new_meta, write_group, result, nstores, ns, blob,
                    barCount, bcast, ohoCount, nforeign, nfaults, nsHist, call,
                    finished, flags, made, pg, wt, search >>

\* RDGPartHeader::MarkAllPropertiesPersistent
MarkAll(properties) == [i \in DOMAIN properties |-> [properties[i] EXCEPT !.persist = TRUE]]

\* RDG::MarkAllPropertiesPersistent
MarkAllPropertiesPersistent(h) ==
    /\ pc[h] = "idle"
    /\ rdg' = [rdg EXCEPT
                 ![h].header.node_prop_info_list = MarkAll(@),
                 ![h].header.edge_prop_info_list = MarkAll(@)]
    /\ UNCHANGED << pc, handle, new_meta, write_group, result, nstores, ns, blob,
                    barCount, bcast, ohoCount, nforeign, nfaults, nsHist, call,
                    finished, flags, made, pg, wt, search >>

\* ------------------------------------------------------------------ load and store without faults
\* A directory that was created and never committed to.
EmptyMeta == [version |-> 0, num_hosts |-> 0, lineage |-> << >>]

\* The initial version as a job of another size stored it.
OtherHostsMeta == [InitMeta EXCEPT !.num_hosts = NumHosts + 1]

\* A default-constructed RDG filled in memory with every kind of
\* partition-boundary array.
PartitionedRDG(h) ==
    [ FreshRDG(h) EXCEPT !.mirror_nodes = << "mirror0", "mirror1" >>,
                         !.master_nodes = << "master0" >>,
                         !.local_to_global_vector = "l2g" ]

\* The jobs whose stores and loads are followed: any handle mode, on the
\* directory holding the initial version; the RDG was loaded from it or
\* built in memory.
LoadInit ==
    /\ pc = [h \in Hosts |-> "idle"]
    /\ handle = [h \in Hosts |-> InitMeta]
    /\ new_meta = [h \in Hosts |-> InitMeta]
    /\ ns = InitMeta
    /\ nsHist = << [meta |-> InitMeta, by |-> "init"] >>
    /\ blob = InitBlob
    /\ \E kind \in {"loaded", "fresh", "partitioned"} :
          rdg = [h \in Hosts |-> IF kind = "loaded" THEN LoadedRDG(h)
                                    ELSE IF kind = "fresh" THEN FreshRDG(h)
                                    ELSE PartitionedRDG(h)]
    /\ \E f \in {kReadWrite, kReadOnly, kReadPartial} : flags = [h \in Hosts |-> f]
    /\ write_group = [h \in Hosts |-> {}]
    /\ result = [h \in Hosts |-> "none"]
    /\ nstores = [h \in Hosts |-> 0]
    /\ barCount = [h \in Hosts |-> 0]
    /\ bcast = << >>
    /\ ohoCount = [h \in Hosts |-> 0]
    /\ nforeign = 0
    /\ nfaults = 0
    /\ call = [h \in Hosts |-> NoCall]
    /\ finished = [h \in Hosts |-> {}]
    /\ made = NoMake
    /\ pg = NoGraph
    /\ wt = NoWrite
    /\ search = NoSearch

\* The tables are filled, the RDG is stored once (no FileFrame given) with
\* nothing failing, and the host that stored loads the result whole.
LoadNext ==
    \/ \E h \in Hosts : nstores[h] = 0 /\ AddNodeProperties(h)
    \/ \E h \in Hosts : nstores[h] = 0 /\ AddEdgeProperties(h)
    \/ \E h \in Hosts : nstores[h] = 0 /\ MarkAllPropertiesPersistent(h)
    \/ \E h \in Hosts : nstores[h] = 0 /\ StoreCall(h) /\ nfaults' = nfaults /\ ~call'[h].ff
    \/ \E h \in Hosts : Finish(h) /\ nfaults' = nfaults
    \/ \E h \in Hosts : BarrierEnter(h)
    \/ \E h \in Hosts : BarrierLeave(h)
    \/ \E h \in Hosts : NSUpdate(h) /\ nfaults' = nfaults
    \/ \E h \in Hosts : PassPTP176(h)
    \/ \E h \in Hosts : FileStoreMeta(h) /\ nfaults' = nfaults
    \/ \E h \in Hosts : OneHostOnlyWait(h)
    \/ \E h \in Hosts : nstores[h] > 0 /\ MakeWith(h, NullProps, NullProps, 0, "throws")

LoadSpec == LoadInit /\ [][LoadNext]_vars

\* ------------------------------------------------------------------ loads of a stored version
\* The header of host h in the initial version when a partitioned RDG with
\* two node columns was stored.
PartitionedHeader(h) ==
    [ InitHeader(h) EXCEPT
        !.node_prop_info_list = Append(@, PropStorageInfo("n1", RandFile(h, "n1", 0), TRUE)),
        !.part_prop_info_list =
            << PropStorageInfo(MirrorPropName(0), RandFile(h, MirrorPropName(0), 0), TRUE),
               PropStorageInfo(MasterPropName(0), RandFile(h, MasterPropName(0), 0), TRUE),
               PropStorageInfo(kLocalToTGlobalPropName,
                               RandFile(h, kLocalToTGlobalPropName, 0), TRUE) >> ]

\* The files of that version, all durable.
PartitionedBlob ==
    Durable( << >>,
             {File(FileName(InitMeta.version), InitMeta)}
             \cup {File(PartitionFileName(h, InitMeta.version), PartitionedHeader(h)) : h \in Hosts}
             \cup UNION {{File(p, p.name) : p \in HeaderFiles(PartitionedHeader(h))} : h \in Hosts} )

\* The directories Make is followed on: empty, or holding the initial version
\* stored by a job of this or of another size, with or without
\* partition-boundary columns; the handle is opened in any mode.
MakeInit ==
    /\ pc = [h \in Hosts |-> "idle"]
    /\ \E meta \in {InitMeta, OtherHostsMeta, EmptyMeta} :
          /\ handle = [h \in Hosts |-> meta]
          /\ new_meta = [h \in Hosts |-> meta]
          /\ ns = meta
          /\ nsHist = << [meta |-> meta, by |-> "init"] >>
          /\ IF meta = EmptyMeta THEN blob = << >>
             ELSE blob \in {InitBlob, PartitionedBlob}
    /\ \E f \in {kReadWrite, kReadOnly, kReadPartial} : flags = [h \in Hosts |-> f]
    /\ rdg = [h \in Hosts |-> FreshRDG(h)]
    /\ write_group = [h \in Hosts |-> {}]
    /\ result = [h \in Hosts |-> "none"]
    /\ nstores = [h \in Hosts |-> 0]
    /\ barCount = [h \in Hosts |-> 0]
    /\ bcast = << >>
    /\ ohoCount = [h \in Hosts |-> 0]
    /\ nforeign = 0
    /\ nfaults = 0
    /\ call = [h \in Hosts |-> NoCall]
    /\ finished = [h \in Hosts |-> {}]
    /\ made = NoMake
    /\ pg = NoGraph
    /\ wt = NoWrite
    /\ search = NoSearch

MakeNext == \E h \in Hosts : MakeCall(h)

MakeSpec == MakeInit /\ [][MakeNext]_vars

\* ------------------------------------------------------------------ loads and mutations
\* The RDG a caller holds after Make returned it.
AsLoaded(r) ==
    [ header |-> r.header, rdg_dir |-> r.rdg_dir,
      node_table |-> r.node_table, edge_table |-> r.edge_table,
      mirror_nodes |-> r.mirror_nodes, master_nodes |-> r.master_nodes,
      local_to_global_vector |-> r.local_to_global_vector, lineage |-> << >> ]

\* The caller keeps the RDG that Make returned (R), when it returned one.
KeepMade(h, R) ==
    /\ R.status = "ok"
    /\ rdg' = [rdg EXCEPT ![h] = AsLoaded(R.rdg)]

\* RDG::Make with the given filters, nothing failing; its result replaces
\* the host's RDG.
MakeInto(h, node_props, edge_props) ==
    /\ pc[h] = "idle"
    /\ KeepMade(h, MakeResult(MakeFromHandle(MakeStart(0, "throws"), h, node_props, edge_props),
                              h, node_props, edge_props))
    /\ UNCHANGED << pc, handle, new_meta, write_group, result, nstores, ns, blob,
                    barCount, bcast, ohoCount, nforeign, nfaults, nsHist, call,
                    finished, flags, made, pg, wt, search >>

\* A job that loads the initial version, with or without filters, and adds
\* and removes columns.
MutateInit ==
    /\ MakeInit
    /\ handle = [h \in Hosts |-> InitMeta]
    /\ flags = [h \in Hosts |-> kReadWrite]

MutateNext ==
    \/ \E h \in Hosts, node_props \in NodeFilters, edge_props \in EdgeFilters :
          MakeInto(h, node_props, edge_props)
    \/ \E h \in Hosts : AddNodeProperties(h)
    \/ \E h \in Hosts : AddEdgeProperties(h)
    \/ \E h \in Hosts, i \in 0 .. MaxNodeColumns - 1 : RemoveNodeProperty(h, i)
    \/ \E h \in Hosts, i \in 0 .. MaxEdgeColumns - 1 : RemoveEdgeProperty(h, i)

MutateSpec == MutateInit /\ [][MutateNext]_vars

\* ------------------------------------------------------------------ PropertyGraph
\* GraphTopology: out_indices[n + 1] is the number of edges of the nodes
\* 0 .. n (a prefix sum), out_dests[e + 1] the destination of edge e.
num_nodes(g) == Len(g.out_indices)

num_edges(g) == Len(g.out_dests)

\* GraphTopology::edge_range(node_id)
edge_range(g, node) ==
    << IF node > 0 THEN g.out_indices[node] ELSE 0, g.out_indices[node + 1] >>

\* PropertyGraph::edges(node): the range of counting iterators
\* [begin_edge, end_edge).
edges(g, node) ==
    [begin |-> edge_range(g, node)[1], end |-> edge_range(g, node)[2]]

\* PropertyGraph::edge_begin(node): *edges(node).begin()
edge_begin(g, node) == edges(g, node).begin

\* edge_end returning the first edge of the node.
edge_endAsBegin(g, node) == edges(g, node).begin

\* PropertyGraph::edge_end(node): *edges(node).end()
edge_end(g, node) == edges(g, node).end

\* The edge handles met when a range is walked from begin to end.
Enumerate(range) == [i \in 1 .. range.end - range.begin |-> range.begin + i - 1]

\* PropertyGraph::GetEdgeDest(edge)
GetEdgeDest(g, edge) == g.out_dests[edge + 1]

\* std::lower_bound over the edges [lo, hi) by destination.
RECURSIVE LowerBound(_, _, _, _)
LowerBound(g, lo, hi, node_to_find) ==
    IF lo >= hi THEN lo
    ELSE LET mid == lo + ((hi - lo) \div 2)
         IN  IF GetEdgeDest(g, mid) < node_to_find
             THEN LowerBound(g, mid + 1, hi, node_to_find)
             ELSE LowerBound(g, lo, mid, node_to_find)

\* FindEdgeSortedByDest(const PropertyFileGraph*, node, node_to_find): binary
\* search in the edge list of node; the end of the list when not found.
FindEdgeSortedByDestPFG(g, node, node_to_find) ==
    LET last == edge_range(g, node)[2]
        edge_matched == LowerBound(g, edge_range(g, node)[1], last, node_to_find)
    IN  IF edge_matched < last /\ GetEdgeDest(g, edge_matched) = node_to_find
        THEN edge_matched ELSE last

\* The wrapper handing its two nodes over in the wrong order.
FindEdgeSortedByDestSwapped(g, node, node_to_find) ==
    FindEdgeSortedByDestPFG(g, node_to_find, node)

\* FindEdgeSortedByDest(const GraphTy&, node, node_to_find)
FindEdgeSortedByDest(g, node, node_to_find) ==
    FindEdgeSortedByDestPFG(g, node, node_to_find)

\* A column of a table's schema, and a property asked of a view: the
\* compile-time property type with the name given for it.
Field(name, type) == [name |-> name, type |-> type]

\* internal::MakeNodePropertyViews / MakeEdgePropertyViews: each property, in
\* order, is looked up by name and bound when its type fits; the first that
\* does not ends the call with an error.
RECURSIVE MakePropertyViews(_, _, _, _)
MakePropertyViews(schema, properties, i, views) ==
    IF i > Len(properties) THEN [ok |-> TRUE, error |-> "", value |-> views]
    ELSE LET cols == {j \in DOMAIN schema : schema[j].name = properties[i].name}
         IN  IF cols = {}
             THEN [ok |-> FALSE, error |-> "PropertyNotFound", value |-> << >>]
             ELSE LET j == CHOOSE j \in cols : \A k \in cols : j <= k
                  IN  IF schema[j].type # properties[i].type
                      THEN [ok |-> FALSE, error |-> "TypeError", value |-> << >>]
                      ELSE MakePropertyViews(schema, properties, i + 1, Append(views, j))

\* What PropertyGraph::Make returns: a graph with its views, or an error;
\* attempted tells which views it tried to make.
GraphResult(ok, error, node_view, edge_view, attempted) ==
    [ ok |-> ok, error |-> error, node_view |-> node_view, edge_view |-> edge_view,
      attempted |-> attempted ]

MakeEdgeViews(node_view, edge_view_result) ==
    IF ~edge_view_result.ok
    THEN GraphResult(FALSE, edge_view_result.error, << >>, << >>, {"node", "edge"})
    ELSE GraphResult(TRUE, "", node_view, edge_view_result.value, {"node", "edge"})

MakeViews(g, node_view_result, edge_properties) ==
    IF ~node_view_result.ok
    THEN GraphResult(FALSE, node_view_result.error, << >>, << >>, {"node"})
    ELSE MakeEdgeViews(node_view_result.value,
                       MakePropertyViews(g.edge_schema, edge_properties, 1, << >>))

\* PropertyGraph::Make going on to the edge views whatever the node views'
\* result.
PropertyGraphMakeUnchecked(g, node_properties, edge_properties) ==
    MakeEdgeViews(MakePropertyViews(g.node_schema, node_properties, 1, << >>).value,
                  MakePropertyViews(g.edge_schema, edge_properties, 1, << >>))

\* PropertyGraph<NodeProps, EdgeProps>::Make(pfg, node_properties, edge_properties)
PropertyGraphMake(g, node_properties, edge_properties) ==
    MakeViews(g, MakePropertyViews(g.node_schema, node_properties, 1, << >>),
              edge_properties)

\* The graphs looked at: every topology of at most MaxNodes nodes and
\* MaxEdges edges, with a node table of an integer and a string column and
\* an edge table of one integer column.
OutIndices(N, E) ==
    {f \in [1 .. N -> 0 .. E] :
        /\ \A i \in 1 .. N - 1 : f[i] <= f[i + 1]
        /\ N > 0 => f[N] = E}

Graphs ==
    UNION { { [ NoGraph EXCEPT
                  !.out_indices = idx, !.out_dests = dests,
                  !.node_schema = << Field("rank", "Int64"), Field("label", "String") >>,
                  !.edge_schema = << Field("weight", "Int64") >> ] :
              idx \in OutIndices(N, IF N = 0 THEN 0 ELSE E),
              dests \in [1 .. (IF N = 0 THEN 0 ELSE E) -> 0 .. N - 1] } :
            N \in 0 .. MaxNodes, E \in 0 .. MaxEdges }

\* The properties a caller asks views of.
NodeRequests ==
    { << >>, << Field("rank", "Int64") >>,
      << Field("label", "String"), Field("rank", "Int64") >>,
      << Field("label", "Int64") >>, << Field("rank", "Int64"), Field("absent", "Int64") >> }

EdgeRequests ==
    { << >>, << Field("weight", "Int64") >>, << Field("weight", "String") >>,
      << Field("absent", "Int64") >> }

\* The variables of the job.
JobVars == << pc, handle, new_meta, rdg, write_group, result, nstores, ns, blob,
              barCount, bcast, ohoCount, nforeign, nfaults, nsHist, call, finished,
              flags, made >>

Called(op, args, ret) == pg' = [pg EXCEPT !.op = op, !.args = args, !.ret = ret]

GraphMake(node_properties, edge_properties) ==
    /\ Called("Make", << node_properties, edge_properties >>,
              PropertyGraphMake(pg, node_properties, edge_properties))
    /\ UNCHANGED << JobVars, wt, search >>

GraphEdges(node) ==
    /\ node < num_nodes(pg)
    /\ Called("edges", << node >>,
              [ begin |-> edge_begin(pg, node), end |-> edge_end(pg, node),
                handles |-> Enumerate(edges(pg, node)) ])
    /\ UNCHANGED << JobVars, wt, search >>

GraphFindEdge(node, node_to_find) ==
    /\ node < num_nodes(pg)
    /\ node_to_find < num_nodes(pg)
    /\ Called("FindEdgeSortedByDest", << node, node_to_find >>,
              FindEdgeSortedByDest(pg, node, node_to_find))
    /\ UNCHANGED << JobVars, wt, search >>

\* The job at rest: no Store call was made.
IdleJob ==
    /\ pc = [h \in Hosts |-> "idle"]
    /\ handle = [h \in Hosts |-> InitMeta]
    /\ new_meta = [h \in Hosts |-> InitMeta]
    /\ ns = InitMeta
    /\ nsHist = << [meta |-> InitMeta, by |-> "init"] >>
    /\ blob = InitBlob
    /\ flags = [h \in Hosts |-> kReadWrite]
    /\ rdg = [h \in Hosts |-> LoadedRDG(h)]
    /\ write_group = [h \in Hosts |-> {}]
    /\ result = [h \in Hosts |-> "none"]
    /\ nstores = [h \in Hosts |-> 0]
    /\ barCount = [h \in Hosts |-> 0]
    /\ bcast = << >>
    /\ ohoCount = [h \in Hosts |-> 0]
    /\ nforeign = 0
    /\ nfaults = 0
    /\ call = [h \in Hosts |-> NoCall]
    /\ finished = [h \in Hosts |-> {}]
    /\ made = NoMake

GraphInit ==
    /\ IdleJob
    /\ pg \in Graphs
    /\ wt = NoWrite
    /\ search = NoSearch

GraphNext ==
    \/ \E node_properties \in NodeRequests, edge_properties \in EdgeRequests :
          GraphMake(node_properties, edge_properties)
    \/ \E node \in 0 .. MaxNodes - 1 : GraphEdges(node)
    \/ \E node, node_to_find \in 0 .. MaxNodes - 1 : GraphFindEdge(node, node_to_find)

GraphSpec == GraphInit /\ [][GraphNext]_vars

\* ------------------------------------------------------------------ WriteTable alone
\* The table WriteTable is handed: n columns.
TableSchema(n) == [i \in 1 .. n |-> "c" \o ToString(i)]

\* The entries a property list can hold for column i: no name, the name of
\* the column or another one; stored or not; to be persisted or not.
TableEntries(i) ==
    { PropStorageInfo(name, path, persist) :
        name \in {"", "c" \o ToString(i), "p" \o ToString(i)},
        path \in {NoPath, RandFile(0, "c" \o ToString(i), 0)},
        persist \in BOOLEAN }

\* The property lists of a table of n columns, one entry per column.
TableProperties(n) ==
    { properties \in [1 .. n -> UNION {TableEntries(i) : i \in 1 .. n}] :
        \A i \in 1 .. n : properties[i] \in TableEntries(i) }

\* A WriteGroup with nothing enqueued, in the first Store call of a host.
EmptyGroup(failAt) ==
    [ hdr |-> InitHeader(0),
      wg |-> {}, rand |-> 1, calls |-> 0, ptps |-> 0,
      status |-> "run", at |-> "", failAt |-> failAt, crashAt |-> 0,
      retPath |-> NoPath, retPaths |-> << >>, retProps |-> << >>,
      ff |-> FALSE, ntopo |-> 0 ]

\* One call WriteTable(table, properties, dir, desc) on host 0; the failAt-th
\* column write fails (0: none).
TableWrite(failAt) ==
    /\ wt.status = "none"
    /\ LET L == WriteTable(EmptyGroup(failAt), 0, wt.schema, wt.properties)
       IN  wt' = [wt EXCEPT !.status = IF L.status = "run" THEN "ok" ELSE L.at,
                            !.ret = IF L.status = "run" THEN L.retProps ELSE << >>,
                            !.next_paths = L.retPaths,
                            !.started = L.wg]
    /\ UNCHANGED << JobVars, pg, search >>

TableInit ==
    /\ IdleJob
    /\ pg = NoGraph
    /\ search = NoSearch
    /\ \E n \in 0 .. MaxTableColumns :
         \E properties \in TableProperties(n) :
            wt = [NoWrite EXCEPT !.schema = TableSchema(n), !.properties = properties]

TableNext == \E failAt \in 0 .. MaxTableColumns : TableWrite(failAt)

TableSpec == TableInit /\ [][TableNext]_vars

\* ------------------------------------------------------------------ subgraph isomorphism
\* A graph: nodes 1 .. n, the label of each node, and its edges as pairs
\* (source, destination).  The edge list of a node is sorted by destination.
Labels == {"A", "B"}

GraphsOf(n) ==
    { [n |-> n, label |-> label, edges |-> edge_set] :
        label \in [1 .. n -> Labels], edge_set \in SUBSET ((1 .. n) \X (1 .. n)) }

\* g.findEdge(src, dst) != g.edge_end(src)
findEdge(g, src, dst) == << src, dst >> \in g.edges

\* The destinations of the edges of n, and the sources of its in-edges.
Neighbors(g, n) == {m \in 1 .. g.n : findEdge(g, n, m)}

InNeighbors(g, n) == {m \in 1 .. g.n : findEdge(g, m, n)}

\* The elements of a std::set or a sorted vector, in order.
RECURSIVE InOrder(_)
InOrder(S) ==
    IF S = {} THEN << >>
    ELSE LET least == CHOOSE x \in S : \A y \in S : x <= y
         IN  << least >> \o InOrder(S \ {least})

NodeMatch(q, d) == [nQ |-> q, nD |-> d]

\* FilterCandidatesInternal (the same for both algorithms): the data nodes
\* with the label of query node n, and with a self loop if n has one.
Candidate(gD, gQ, n) ==
    { di \in 1 .. gD.n :
        /\ gQ.label[n] = gD.label[di]
        /\ ~(findEdge(gQ, n, n) /\ ~findEdge(gD, di, di)) }

\* filterCandidates: true if some query node has no candidate.
filterCandidates(gD, gQ) == \E n \in 1 .. gQ.n : Candidate(gD, gQ, n) = {}

\* isJoinable (the same for both algorithms)
isJoinable(gD, gQ, undirected, nD, nQ, matching) ==
    \A i \in DOMAIN matching :
        LET mi == matching[i]
        IN  /\ nD # mi.nD
            /\ ~(findEdge(gQ, nQ, mi.nQ) /\ ~findEdge(gD, nD, mi.nD))
            /\ ~undirected =>
                  ~(findEdge(gQ, mi.nQ, nQ) /\ ~findEdge(gD, mi.nD, nD))

\* VF2Algo::countNeighbors and countInNeighbors: how many neighbours are in
\* the frontier, and how many are neither there nor matched.
countNeighbors(g, n, matched, frontier) ==
    [ numFrontier |-> Cardinality(Neighbors(g, n) \cap frontier),
      numOther |-> Cardinality(Neighbors(g, n) \ (frontier \cup matched)) ]

countInNeighbors(g, n, matched, frontier) ==
    [ numFrontier |-> Cardinality(InNeighbors(g, n) \cap frontier),
      numOther |-> Cardinality(InNeighbors(g, n) \ (frontier \cup matched)) ]

\* VF2Algo::nextQueryNode: the first element of the thread's qFrontier.
VF2nextQueryNode(qFrontier) == CHOOSE x \in qFrontier : \A y \in qFrontier : x <= y

\* VF2Algo::refineCandidates: the nodes of the data frontier that are
\* candidates of nQuery and have at least as many neighbours of each kind.
VF2refineCandidates(gD, gQ, undirected, nQuery, T) ==
    LET Q == countNeighbors(gQ, nQuery, T.qMatched, T.qFrontier)
        QIn == IF undirected THEN [numFrontier |-> 0, numOther |-> 0]
               ELSE countInNeighbors(gQ, nQuery, T.qMatched, T.qFrontier)
        numNghQ == Cardinality(Neighbors(gQ, nQuery))
        numInNghQ == IF undirected THEN 0 ELSE Cardinality(InNeighbors(gQ, nQuery))
        Keeps(ii) ==
            LET D == countNeighbors(gD, ii, T.dMatched, T.dFrontier)
                DIn == countInNeighbors(gD, ii, T.dMatched, T.dFrontier)
            IN  /\ ii \in Candidate(gD, gQ, nQuery)
                /\ Cardinality(Neighbors(gD, ii)) >= numNghQ
                /\ D.numFrontier >= Q.numFrontier
                /\ D.numOther >= Q.numOther
                /\ ~undirected =>
                      /\ Cardinality(InNeighbors(gD, ii)) >= numInNghQ
                      /\ DIn.numFrontier >= QIn.numFrontier
                      /\ DIn.numOther >= QIn.numOther
    IN  InOrder({ii \in T.dFrontier : Keeps(ii)})

\* UllmannAlgo::nextQueryNode: the query node after those matched so far.
UllmannnextQueryNode(matching) == Len(matching) + 1

\* UllmannAlgo::refineCandidates: the candidates of nQuery with at least as
\* many edges and in-edges.
UllmannrefineCandidates(gD, gQ, nQuery) ==
    InOrder({ii \in Candidate(gD, gQ, nQuery) :
                /\ Cardinality(Neighbors(gD, ii)) >= Cardinality(Neighbors(gQ, nQuery))
                /\ Cardinality(InNeighbors(gD, ii)) >= Cardinality(InNeighbors(gQ, nQuery))})

\* verifyMatching: true when the matching passes (isFailed stays false).
verifyMatching(matching, gD, gQ) ==
    \A i1 \in DOMAIN matching :
        LET m1 == matching[i1]
        IN  /\ gQ.label[m1.nQ] = gD.label[m1.nD]
            /\ \A i2 \in DOMAIN matching :
                  LET m2 == matching[i2]
                  IN  /\ ~(m1.nQ # m2.nQ /\ m1.nD = m2.nD)
                      /\ ~(m1.nQ = m2.nQ /\ m1.nD # m2.nD)
                      /\ ~(findEdge(gQ, m1.nQ, m2.nQ) /\ ~findEdge(gD, m1.nD, m2.nD))

\* ---- one worker thread
\* A thread holds the work item it runs (matching), its elements of the
\* PerThreadSets, and the stack of its doSearch calls: the locals of each
\* call, where it stands, and what the thread held when it was entered.
Threads == 1 .. NumThreads

PerThreadState(T) ==
    [ qMatched |-> T.qMatched, qFrontier |-> T.qFrontier,
      dMatched |-> T.dMatched, dFrontier |-> T.dFrontier, matching |-> T.matching ]

NoReturn == [ returned |-> FALSE ]

IdleThread ==
    [ status |-> "idle", matching |-> << >>,
      qMatched |-> {}, qFrontier |-> {}, dMatched |-> {}, dFrontier |-> {},
      stack |-> << >>, ret |-> NoReturn ]

Top(T) == T.stack[Len(T.stack)]

\* doSearch(matching) is called.
Call(T) ==
    [T EXCEPT !.stack = Append(@,
        [ pc |-> "check", nQ |-> 0, refined |-> << >>, ri |-> 0,
          qAdd2Frontier |-> {}, dAdd2Frontier |-> {}, entry |-> PerThreadState(T) ])]

\* doSearch returns, currentlyFound being found.
Return(T, found) ==
    [T EXCEPT !.stack = SubSeq(@, 1, Len(@) - 1),
              !.status = IF Len(T.stack) = 1 THEN "epilogue" ELSE "run",
              !.ret = [ returned |-> TRUE, entry |-> Top(T).entry,
                        exit |-> PerThreadState(T), found |-> found ]]

\* VF2 doSearch: restore query state.
RestoreQuery(S, T) ==
    IF S.algo # "vf2" THEN T
    ELSE LET f == Top(T)
         IN  [T EXCEPT !.qMatched = @ \ {f.nQ},
                       !.qFrontier = (@ \cup {f.nQ}) \ f.qAdd2Frontier]

\* VF2 doSearch: restore data state, for the candidate just tried.
RestoreData(S, T) ==
    IF S.algo # "vf2" THEN T
    ELSE LET f == Top(T)
             ri == f.refined[f.ri]
         IN  [T EXCEPT !.dMatched = @ \ {ri},
                       !.dFrontier = (@ \cup {ri}) \ f.dAdd2Frontier]

\* The nodes a match of n adds to the frontier: its neighbours by edges and
\* in-edges that are neither matched nor there already.
Add2Frontier(g, n, matched, frontier) ==
    ((Neighbors(g, n) \cup InNeighbors(g, n)) \ matched) \ frontier

\* VF2 doSearch: update data state for the candidate ri.
UpdateData(S, T, ri) ==
    IF S.algo # "vf2" THEN T
    ELSE LET matched == T.dMatched \cup {ri}
             frontier == T.dFrontier \ {ri}
             added == Add2Frontier(S.gD, ri, matched, frontier)
         IN  [T EXCEPT !.dMatched = matched, !.dFrontier = frontier \cup added,
                       !.stack[Len(T.stack)].dAdd2Frontier = added]

\* The loop of doSearch over refined, from candidate number f.ri on: the
\* first joinable candidate is added to matching and doSearch is called, or
\* there is none and doSearch returns.
Iterate(S, T, found) ==
    LET f == Top(T)
        joinable == {i \in f.ri .. Len(f.refined) :
                        isJoinable(S.gD, S.gQ, S.undirected, f.refined[i], f.nQ, T.matching)}
    IN  IF joinable = {} THEN Return(RestoreQuery(S, T), found)
        ELSE LET i == CHOOSE x \in joinable : \A y \in joinable : x <= y
                 T1 == [T EXCEPT !.matching = Append(@, NodeMatch(f.nQ, f.refined[i])),
                                 !.stack[Len(T.stack)].ri = i,
                                 !.stack[Len(T.stack)].pc = "after_call"]
             IN  Call(UpdateData(S, T1, f.refined[i]))

\* doSearch from nextQueryNode to the loop: the next query node, its
\* refined candidates, and for VF2 the update of the query state.
Expand(S, T) ==
    IF S.algo = "vf2"
    THEN LET nQ == VF2nextQueryNode(T.qFrontier)
             refined == VF2refineCandidates(S.gD, S.gQ, S.undirected, nQ, T)
             matched == T.qMatched \cup {nQ}
             frontier == T.qFrontier \ {nQ}
             added == Add2Frontier(S.gQ, nQ, matched, frontier)
         IN  [T EXCEPT !.qMatched = matched, !.qFrontier = frontier \cup added,
                       !.stack[Len(T.stack)] =
                           [@ EXCEPT !.nQ = nQ, !.refined = refined, !.ri = 1,
                                     !.qAdd2Frontier = added]]
    ELSE LET nQ == UllmannnextQueryNode(T.matching)
         IN  [T EXCEPT !.stack[Len(T.stack)] =
                           [@ EXCEPT !.nQ = nQ, !.ri = 1,
                                     !.refined = UllmannrefineCandidates(S.gD, S.gQ, nQ)]]

\* doSearch from its entry, found being what currentlyFound.load() gave.
doSearch(S, T, found) ==
    IF found >= S.kFound THEN Return(T, found)
    ELSE IF Len(T.matching) = S.gQ.n
         THEN [T EXCEPT !.stack[Len(T.stack)].pc = "report"]
         ELSE IF S.algo = "vf2" /\ T.qFrontier = {}
              THEN [T EXCEPT !.status = "undefined"]
              ELSE Iterate(S, Expand(S, T), found)

\* doSearch after the call it made returned.
doSearchResume(S, T, found) ==
    IF found >= S.kFound THEN Return(T, found)
    ELSE LET T1 == RestoreData(S, T)
             T2 == [T1 EXCEPT !.matching = SubSeq(@, 1, Len(@) - 1),
                              !.stack[Len(T.stack)].ri = @ + 1,
                              !.stack[Len(T.stack)].dAdd2Frontier = {}]
         IN  Iterate(S, T2, found)

\* SubgraphSearchInternal::operator() up to its call of doSearch: VF2 seeds
\* the thread's sets from the first match of the work item.
OperatorBegin(S, T, item) ==
    LET nQ == item[1].nQ
        nD == item[1].nD
        T1 == [T EXCEPT !.status = "run", !.matching = item]
    IN  Call(IF S.algo # "vf2" THEN T1
             ELSE [T1 EXCEPT
                     !.qMatched = @ \cup {nQ},
                     !.qFrontier = @ \cup Neighbors(S.gQ, nQ) \cup InNeighbors(S.gQ, nQ),
                     !.dMatched = @ \cup {nD},
                     !.dFrontier = @ \cup Neighbors(S.gD, nD) \cup InNeighbors(S.gD, nD)])

\* ---- the search
\* subgraphSearch: one work item per candidate of the first query node.
Works(gD, gQ) == { << NodeMatch(1, ci) >> : ci \in Candidate(gD, gQ, 1) }

ThreadVars == << JobVars, pg, wt >>

\* for_each_local hands a work item to a thread that has none, until the
\* loop is broken.
TakeWork(t) ==
    /\ search.th[t].status = "idle"
    /\ ~search.broke
    /\ \E item \in search.works :
          search' = [search EXCEPT !.works = @ \ {item},
                                   !.th[t] = OperatorBegin(search, @, item)]
    /\ UNCHANGED ThreadVars

\* doSearch: if (currentlyFound.load() >= kFound) return; and what follows
\* up to the next access to what the threads share.
SearchEntry(t) ==
    /\ search.th[t].status = "run"
    /\ Top(search.th[t]).pc = "check"
    /\ search' = [search EXCEPT !.th[t] = doSearch(search, @, search.currentlyFound)]
    /\ UNCHANGED ThreadVars

\* report.push_back(matching)
ReportMatching(t) ==
    /\ search.th[t].status = "run"
    /\ Top(search.th[t]).pc = "report"
    /\ search' = [search EXCEPT !.report = Append(@, search.th[t].matching),
                                !.th[t].stack[Len(search.th[t].stack)].pc = "inc"]
    /\ UNCHANGED ThreadVars

\* currentlyFound += 1; return;
Increment(t) ==
    /\ search.th[t].status = "run"
    /\ Top(search.th[t]).pc = "inc"
    /\ search' = [search EXCEPT !.currentlyFound = @ + 1,
                                !.th[t] = Return(@, search.currentlyFound + 1)]
    /\ UNCHANGED ThreadVars

\* doSearch after the recursive call: if (currentlyFound.load() >= kFound)
\* return; else restore, and on to the next candidate.
SearchResume(t) ==
    /\ search.th[t].status = "run"
    /\ Top(search.th[t]).pc = "after_call"
    /\ search' = [search EXCEPT !.th[t] = doSearchResume(search, @, search.currentlyFound)]
    /\ UNCHANGED ThreadVars

\* SubgraphSearchInternal::operator() after doSearch: VF2 clears the
\* thread's sets; the loop is broken once kFound instances were found.
OperatorEnd(t) ==
    /\ search.th[t].status = "epilogue"
    /\ search' = [search EXCEPT
                    !.th[t] = [IdleThread EXCEPT !.ret = search.th[t].ret],
                    !.broke = @ \/ search.currentlyFound >= search.kFound]
    /\ UNCHANGED ThreadVars

\* The graphs a search is run on: a connected query graph, both graphs
\* symmetric when run as undirected, and every query node has a candidate.
RECURSIVE Reachable(_, _)
Reachable(g, S) ==
    LET S2 == S \cup UNION {Neighbors(g, n) \cup InNeighbors(g, n) : n \in S}
    IN  IF S2 = S THEN S ELSE Reachable(g, S2)

Connected(g) == Reachable(g, {1}) = 1 .. g.n

Symmetric(g) == \A e \in g.edges : << e[2], e[1] >> \in g.edges

QueryGraphs == {g \in UNION {GraphsOf(n) : n \in 1 .. MaxQueryNodes} : Connected(g)}

DataGraphs == UNION {GraphsOf(n) : n \in 1 .. MaxDataNodes}

\* run<Algo>() after filterCandidates, at the call of subgraphSearch.
SearchInit ==
    /\ IdleJob
    /\ pg = NoGraph
    /\ wt = NoWrite
    /\ \E algo \in {"ullmann", "vf2"}, undirected \in BOOLEAN, kFound \in 1 .. MaxFound,
          gQ \in QueryGraphs, gD \in DataGraphs :
          /\ undirected => Symmetric(gQ) /\ Symmetric(gD)
          /\ ~filterCandidates(gD, gQ)
          /\ search = [ algo |-> algo, undirected |-> undirected, kFound |-> kFound,
                        gD |-> gD, gQ |-> gQ,
                        currentlyFound |-> 0, report |-> << >>,
                        works |-> Works(gD, gQ), broke |-> FALSE,
                        th |-> [t \in Threads |-> IdleThread] ]

SearchNext ==
    \/ \E t \in Threads : TakeWork(t)
    \/ \E t \in Threads : SearchEntry(t)
    \/ \E t \in Threads : ReportMatching(t)
    \/ \E t \in Threads : Increment(t)
    \/ \E t \in Threads : SearchResume(t)
    \/ \E t \in Threads : OperatorEnd(t)

SearchSpec == SearchInit /\ [][SearchNext]_vars

\* ------------------------------------------------------------------ specification
Next ==
    \/ \E h \in Hosts : StoreCall(h)
    \/ \E h \in Hosts : Finish(h)
    \/ \E h \in Hosts : BarrierEnter(h)
    \/ \E h \in Hosts : BarrierLeave(h)
    \/ \E h \in Hosts : NSUpdate(h)
    \/ \E h \in Hosts : PassPTP176(h)
    \/ \E h \in Hosts : FileStoreMeta(h)
    \/ \E h \in Hosts : OneHostOnlyWait(h)
    \/ \E h \in Hosts : Crash(h)
    \/ ForeignCommit

Spec == Init /\ [][Next]_vars

\* The steps of a host inside CommitRDG are taken whenever they can be: a
\* host that is inside Store keeps running.  Nothing obliges a caller to call
\* Store (again), a fault to happen, or another writer to commit.
FairSpec ==
    /\ Spec
    /\ \A h \in Hosts :
          /\ WF_vars(Finish(h))
          /\ WF_vars(BarrierEnter(h))
          /\ WF_vars(BarrierLeave(h))
          /\ WF_vars(NSUpdate(h))
          /\ WF_vars(PassPTP176(h))
          /\ WF_vars(FileStoreMeta(h))
          /\ WF_vars(OneHostOnlyWait(h))

\* ------------------------------------------------------------------ properties
InCall(h) == pc[h] \notin {"idle", "crashed"}

Returned(h) == pc[h] = "idle" /\ nstores[h] > 0

\* The checkpoints of steps 1 to 7 of the commit protocol: those of the
\* topology, column and header writes, those before and after Finish (the
\* latter is the one before the barrier) and the one after Update.
Steps1To7Checkpoints ==
    {"topology", "column", "table", "before_header", "after_header",
     "ptp158", "ptp163", "ptp176"}

\* C1: if Store is aborted at a checkpoint of steps 1 to 7, the naming service
\* still returns the version it held when Store was called (no other writer
\* having committed since).
C1_AbortKeepsPreCommitVersion ==
    \A h \in Hosts :
        (call[h].crashedAt \in Steps1To7Checkpoints /\ ~call[h].foreign)
            => ns = call[h].preNS

\* C2: when the Update issued by CommitRDG is rejected (conflict or error),
\* Store returns a failure, the metadata-pointer file is not written and the
\* handle's RDGMeta is not advanced.
C2_RejectedUpdateIsReported ==
    \A h \in Hosts :
        call[h].update \in {"conflict", "error"}
            => /\ ~call[h].wrotePtr
               /\ handle[h] = call[h].preMeta
               /\ Returned(h) => result[h] # "ok"

\* C3: if Finish reports a failure, the host issues no Update, writes no
\* metadata-pointer file, leaves the handle's RDGMeta alone and returns the
\* failure from Store.
C3_FinishFailureAborts ==
    \A h \in Hosts :
        call[h].finish = "failed"
            => /\ call[h].update = "none"
               /\ ~call[h].wrotePtr
               /\ handle[h] = call[h].preMeta
               /\ pc[h] = "idle"
               /\ result[h] = "IOError"

C3_Witness ==
    \E h \in Hosts : call[h].finish = "failed" /\ Returned(h)

\* C4: whenever Store has returned a failure, the naming service's latest
\* version is what it was before the call (no other writer having committed
\* since).
C4_FailedStoreLeavesNamingService ==
    \A h \in Hosts :
        (Returned(h) /\ result[h] # "ok" /\ ~call[h].foreign)
            => ns = call[h].preNS

\* C5: the version the naming service records as latest is fully durable: its
\* metadata-pointer file exists, and so do every host's header file and every
\* file (topology, attribute columns) the header names.  Stated for the
\* directory while the job is its only writer.
C5_LatestIsDurable ==
    nforeign = 0 =>
        /\ FileName(ns.version) \in DOMAIN blob
        /\ \A h \in Hosts :
              /\ PartitionFileName(h, ns.version) \in DOMAIN blob
              /\ HeaderFiles(blob[PartitionFileName(h, ns.version)]) \ {NoPath}
                     \subseteq DOMAIN blob

\* C6: the versions the naming service returns as latest are strictly
\* increasing, and each Store that returned success published the handle's
\* prior version plus one.
C6_MonotonicAndPublished ==
    /\ \A i \in 1 .. Len(nsHist) - 1 :
          nsHist[i + 1].meta.version > nsHist[i].meta.version
    /\ \A h \in Hosts :
          (Returned(h) /\ result[h] = "ok")
              => \E i \in 1 .. Len(nsHist) :
                    /\ nsHist[i].by = "job"
                    /\ nsHist[i].meta.version = call[h].preMeta.version + 1

C8_BarrierSafety ==
    \A h \in Hosts :
        (call[h].update # "none" \/ call[h].wrotePtr)
            => \A g \in Hosts : call[h].target \in finished[g]

C8_Witness ==
    \E h \in Hosts : h # ElectedHost /\ call[h].update # "none" /\ call[ElectedHost].wrotePtr

\* C9: only the elected host writes the metadata-pointer file of the new
\* version, it does so after its Update, and a Store that returned success
\* finds that file written.
C9_OneHostWritesPointer ==
    \A h \in Hosts :
        /\ call[h].wrotePtr => (h = ElectedHost /\ call[h].update # "none")
        /\ pc[h] = "ptp178" => (h = ElectedHost /\ call[h].update # "none")
        /\ (Returned(h) /\ result[h] = "ok")
              => FileName(handle[h].version) \in DOMAIN blob

C9_Witness ==
    /\ call[ElectedHost].wrotePtr
    /\ \A h \in Hosts : Returned(h) /\ result[h] = "ok"

\* C10: when Finish failed on one host of a collective Store, so that this
\* host has returned from Store with the error, every other host that is
\* inside the same collective Store eventually returns from it.
C10_EveryHostReturns ==
    \A g \in Hosts : \A h \in Hosts \ {g} :
        (call[g].finish = "failed" /\ pc[g] = "idle"
             /\ nstores[h] = nstores[g] /\ InCall(h))
          ~> (pc[h] = "idle")

\* The storage-info entries of a header: node, edge and partition-boundary.
HeaderEntries(hdr) ==
    {hdr.node_prop_info_list[i] : i \in DOMAIN hdr.node_prop_info_list}
    \cup {hdr.edge_prop_info_list[i] : i \in DOMAIN hdr.edge_prop_info_list}
    \cup {hdr.part_prop_info_list[i] : i \in DOMAIN hdr.part_prop_info_list}

\* C11: once a Store of the RDG has got as far as WriteGroup::Finish and has
\* returned (with success, or with a failure of Finish or of a later step),
\* and also after a retry of it, a storage-info entry of the header with a
\* non-empty path names a column file that is durable: a path recorded by
\* DoStore for a write that did not become durable is not left non-empty.
C11_NonEmptyPathIsDurable ==
    \A h \in Hosts :
        (pc[h] = "idle" /\ call[h].finish # "none") =>
            \A e \in HeaderEntries(rdg[h].header) :
                e.path # NoPath => e.path \in DOMAIN blob

\* The host-local part of the host's Store call ran to its end: every table
\* was written and CommitRDG was entered.
LocalPartDone(h) == nstores[h] > 0 /\ (InCall(h) \/ call[h].finish # "none")

\* WriteTable's contract for one storage-info list: pre is the list it was
\* given, now the list it returned, started the paths of the writes started.
StoredEmptyKeptOthers(pre, now, started) ==
    /\ Len(now) = Len(pre)
    /\ \A i \in DOMAIN pre :
          IF pre[i].path = NoPath
          THEN now[i].path # NoPath /\ now[i].path \in started
          ELSE now[i] = pre[i] /\ \A p \in started : p.name # pre[i].name

\* C12: WriteTable stores every attribute whose storage-info path is empty
\* and records the returned path for it; it starts no write for, and leaves
\* unchanged, every attribute whose path is already non-empty.
C12_WriteTableStoresEmptyPaths ==
    \A h \in Hosts :
        LocalPartDone(h) =>
            /\ StoredEmptyKeptOthers(call[h].inHeader.node_prop_info_list,
                                     rdg[h].header.node_prop_info_list, call[h].started)
            /\ StoredEmptyKeptOthers(call[h].inHeader.edge_prop_info_list,
                                     rdg[h].header.edge_prop_info_list, call[h].started)

\* The attribute-column files among a set of paths: the uniquely named files
\* that are not a topology.
ColumnFiles(paths) == {p \in paths : p.kind = "rand" /\ p.name # "topology"}

\* C13: when Store is called a second time on the same RDG and handle after
\* a first call that succeeded, with no mutation in between, the second call
\* starts no write of an attribute column (node, edge or partition-boundary)
\* and leaves the header listing the attribute paths of the first.
C13_SecondStoreWritesNoColumn ==
    \A h \in Hosts :
        (nstores[h] = 2 /\ call[h].prevResult = "ok" /\ LocalPartDone(h)) =>
            /\ ColumnFiles(call[h].started) = {}
            /\ HeaderEntries(rdg[h].header) = HeaderEntries(call[h].preHeader)

\* C14: when the store of a column fails inside WriteTable or WritePartArrays,
\* Store returns that error and the header's node, edge and
\* partition-boundary storage-info lists are what they were before the call.
C14_FailedColumnLeavesLists ==
    \A h \in Hosts :
        (Returned(h) /\ result[h] = "ArrowError") =>
            /\ rdg[h].header.node_prop_info_list = call[h].preHeader.node_prop_info_list
            /\ rdg[h].header.edge_prop_info_list = call[h].preHeader.edge_prop_info_list
            /\ rdg[h].header.part_prop_info_list = call[h].preHeader.part_prop_info_list

\* Make was called by host h, after the host's Store succeeded, on the
\* version that Store committed.
MadeAfterStore(h) ==
    /\ made.status # "none" /\ made.host = h
    /\ Returned(h) /\ result[h] = "ok"
    /\ made.meta = handle[h] /\ made.meta.version = call[h].target

\* C15: for an RDG whose tables were filled through AddNodeProperties and
\* AddEdgeProperties, a successful Store followed by Make without filters on
\* the resulting version returns an RDG whose node and edge tables have the
\* same columns, in the same order, with the same values.
C15_StoreMakeRoundTrip ==
    \A h \in Hosts :
        (MadeAfterStore(h) /\ made.node_props = NullProps /\ made.edge_props = NullProps) =>
            /\ made.status = "ok"
            /\ made.rdg.node_table = rdg[h].node_table
            /\ made.rdg.edge_table = rdg[h].edge_table

\* The header file Make read: the one of the calling host in the version asked for.
StoredHeader == blob[PartitionFileName(made.host, made.meta.version)]

\* The names a filter lets through.
Requested(props, name) == ~props.given \/ name \in props.names

\* table holds exactly the columns of the list that the filter asks for,
\* once each, in the order of the list.
ExactlyRequestedInOrder(table, properties, props) ==
    /\ {table[i] : i \in DOMAIN table}
          = {properties[k].name : k \in {j \in DOMAIN properties : Requested(props, properties[j].name)}}
    /\ \A i, j \in DOMAIN table :
          i < j => \E k, l \in DOMAIN properties :
                      k < l /\ properties[k].name = table[i] /\ properties[l].name = table[j]

\* C16: a successful Make with a node (or edge) property filter returns a
\* table whose columns are exactly the requested names that exist in the
\* stored header, in header order; with no filter it returns every attribute
\* the header lists.
C16_PartialLoad ==
    made.status = "ok" =>
        /\ ExactlyRequestedInOrder(made.rdg.node_table,
                                   StoredHeader.node_prop_info_list, made.node_props)
        /\ ExactlyRequestedInOrder(made.rdg.edge_table,
                                   StoredHeader.edge_prop_info_list, made.edge_props)

C16_Witness ==
    /\ made.status = "ok" /\ made.node_props.given
    /\ Len(made.rdg.node_table) = 1
    /\ Len(StoredHeader.node_prop_info_list) = 2

\* C17: whatever the filters, a successful Make has bound the topology from
\* the path the stored header records and has loaded every
\* partition-boundary column the header lists into the mirror sets, the
\* master sets and the local-to-global vector.
C17_FiltersSpareTopologyAndBoundary ==
    made.status = "ok" =>
        /\ made.rdg.header.topology_path = StoredHeader.topology_path
        /\ StoredHeader.topology_path \in made.reads
        /\ made.rdg.topology = blob[StoredHeader.topology_path]
        /\ made.rdg.header.part_prop_info_list = StoredHeader.part_prop_info_list
        /\ \A i \in DOMAIN StoredHeader.part_prop_info_list :
              StoredHeader.part_prop_info_list[i].path \in made.reads
        /\ Len(made.rdg.mirror_nodes) + Len(made.rdg.master_nodes)
             + (IF made.rdg.local_to_global_vector = "null" THEN 0 ELSE 1)
           = Len(StoredHeader.part_prop_info_list)

C17_Witness ==
    /\ made.status = "ok" /\ made.node_props.given /\ made.edge_props.given
    /\ Len(made.rdg.node_table) < Len(StoredHeader.node_prop_info_list)
    /\ Len(made.rdg.mirror_nodes) = 1 /\ Len(made.rdg.master_nodes) = 1
    /\ made.rdg.local_to_global_vector # "null"

\* C18: whenever a step of Make fails (reading the header, pruning, loading a
\* node, edge or partition-boundary column, binding the topology), Make
\* returns a failure, which is the failure of that step, and no RDG.
C18_MakePropagatesFailure ==
    made.step # "" =>
        /\ made.status = "failed"
        /\ made.error = made.cause
        /\ made.rdg = NoRDG

\* C19: Make on an RDGMeta whose num_hosts is not the number of hosts of the
\* job returns InvalidArgument and reads no file, unless the RDGMeta is an
\* empty RDG: then the host count is not what Make fails on.
C19_HostCountMismatch ==
    (made.status # "none" /\ AllowsRead(made.flags)) =>
        /\ (~IsEmptyRDG(made.meta) /\ made.meta.num_hosts # NumHosts)
              => /\ made.status = "failed" /\ made.error = "InvalidArgument"
                 /\ made.step = "hosts" /\ made.reads = {}
        /\ IsEmptyRDG(made.meta) => made.step # "hosts"

C19_Witness ==
    /\ made.status = "failed" /\ made.step = "hosts"
    /\ made.meta.num_hosts = NumHosts + 1

\* C20: Store on a handle that does not allow write returns InvalidArgument
\* with no effect (no write started, header and lineage unchanged, no Update
\* sent to the naming service); Make on a handle that does not allow read
\* returns InvalidArgument and loads nothing.
C20_RefusedHandle ==
    /\ \A h \in Hosts :
          (nstores[h] > 0 /\ ~AllowsWrite(flags[h])) =>
              /\ pc[h] = "idle" /\ result[h] = "InvalidArgument"
              /\ call[h].started = {} /\ write_group[h] = {}
              /\ rdg[h].header = call[h].preHeader
              /\ rdg[h].lineage = call[h].preLineage
              /\ call[h].update = "none" /\ ns = call[h].preNS
    /\ (made.status # "none" /\ ~AllowsRead(made.flags)) =>
          /\ made.status = "failed" /\ made.error = "InvalidArgument"
          /\ made.reads = {} /\ made.rdg = NoRDG

C20_Witness ==
    /\ \E h \in Hosts : nstores[h] > 0 /\ ~AllowsWrite(flags[h]) /\ ~AllowsRead(flags[h])
    /\ made.status = "failed" /\ made.step = "handle"

\* C24: the lineage carried by the RDGMeta of a committed version is the
\* lineage of the version it was derived from followed by exactly one entry,
\* the command line of the Store call that committed it, also when an
\* earlier Store on the same RDG failed.
C24_LineageOneEntryPerCommit ==
    \A h \in Hosts :
        (Returned(h) /\ result[h] = "ok" /\ handle[h].version = call[h].target) =>
            handle[h].lineage
              = Append(call[h].preMeta.lineage, "store" \o ToString(nstores[h]))

\* The header write a Store call enqueued.
HeaderWrites(h, W) == {f \in W : f.path = PartitionFileName(h, call[h].target)}

\* comm->Barrier() was entered in the host's current (or last) Store call.
EnteredBarrier(h) == barCount[h] > call[h].preBar

\* C27: within one Store on one host, the header write is enqueued only after
\* the topology write and every column write was enqueued and its path
\* recorded in the header; Finish is called after the header write is
\* enqueued; the barrier follows Finish, the naming-service Update follows
\* the barrier, and the metadata-pointer write follows the Update.
C27_StoreStepsOrdered ==
    \A h \in Hosts :
        /\ pc[h] = "ptp158" =>
              /\ HeaderWrites(h, write_group[h]) # {}
              /\ \A f \in HeaderWrites(h, write_group[h]) :
                    /\ f.data = rdg[h].header
                    /\ \A g \in write_group[h] \ {f} : g.path \in HeaderFiles(f.data)
        /\ call[h].finish # "none" => PartitionFileName(h, call[h].target) \in call[h].started
        /\ EnteredBarrier(h) => call[h].finish = "ok"
        /\ call[h].update # "none" => EnteredBarrier(h) /\ BarrierReleased(h)
        /\ call[h].wrotePtr => call[h].update # "none"
        /\ (pc[h] = "ptp178" \/ pc[h] = "oho_wait") => call[h].update # "none"

C27_Witness ==
    \E h \in Hosts :
        /\ Returned(h) /\ result[h] = "ok" /\ call[h].wrotePtr
        /\ Cardinality(call[h].started) >= 4

\* C28: a Store call enqueues at most one topology write.  Given a FileFrame,
\* Store writes it to a fresh file and records that file as the header's
\* topology path, and DoStore writes no second one; given none, DoStore
\* writes the in-memory topology only if the header's topology path is
\* empty, and otherwise leaves the topology path as it was.
C28_AtMostOneTopologyWrite ==
    \A h \in Hosts :
        /\ call[h].ntopo <= 1
        /\ (nstores[h] > 0 /\ LocalPartDone(h)) =>
              IF call[h].ff \/ call[h].inHeader.topology_path = NoPath
              THEN /\ call[h].ntopo = 1
                   /\ RandFile(h, "topology", nstores[h]) \in call[h].started
                   /\ rdg[h].header.topology_path = RandFile(h, "topology", nstores[h])
              ELSE /\ call[h].ntopo = 0
                   /\ rdg[h].header.topology_path = call[h].inHeader.topology_path

\* A FileFrame given for an RDG whose header records no topology: Store
\* writes it and DoStore, which would have written one, does not.
C28_Witness ==
    \E h \in Hosts : /\ nstores[h] > 0 /\ LocalPartDone(h) /\ call[h].ff
                      /\ call[h].inHeader.topology_path = NoPath
                      /\ call[h].ntopo = 1

\* The entries of a list that record a path.
Recorded(properties) == {properties[i] : i \in {j \in DOMAIN properties : properties[j].path # NoPath}}

\* Every persistent attribute of the list has a file that this Store call
\* started.
WrittenAnew(properties, started) ==
    \A i \in DOMAIN properties :
        properties[i].persist => properties[i].path \in started

\* C29: when Store targets a directory other than the one the RDG was loaded
\* from, every persisted attribute column and the topology are written as new
\* files of this call and the header references no path it held before; when
\* Store targets the directory the RDG was loaded from by Make, the header is
\* not unbound: every path it recorded is still recorded.
C29_UnboundForAnotherDirectory ==
    \A h \in Hosts :
        (nstores[h] > 0 /\ LocalPartDone(h)) =>
            /\ rdg[h].rdg_dir = OtherDir =>
                  /\ rdg[h].header.topology_path \in call[h].started
                  /\ WrittenAnew(rdg[h].header.node_prop_info_list, call[h].started)
                  /\ WrittenAnew(rdg[h].header.edge_prop_info_list, call[h].started)
                  /\ WrittenAnew(rdg[h].header.part_prop_info_list, call[h].started)
                  /\ nstores[h] = 1 =>
                        HeaderFiles(rdg[h].header) \cap HeaderFiles(call[h].preHeader) = {}
            /\ rdg[h].rdg_dir = Dir =>
                  /\ Recorded(call[h].preHeader.node_prop_info_list)
                        \subseteq Recorded(rdg[h].header.node_prop_info_list)
                  /\ Recorded(call[h].preHeader.edge_prop_info_list)
                        \subseteq Recorded(rdg[h].header.edge_prop_info_list)
                  /\ ~call[h].ff => rdg[h].header.topology_path = call[h].preHeader.topology_path

C29_Witness ==
    \E h \in Hosts :
        /\ Returned(h) /\ result[h] = "ok" /\ rdg[h].rdg_dir = OtherDir /\ ~call[h].ff
        /\ Cardinality(call[h].started) = 5

\* C30: after a successful Store to the directory, a following Store to it
\* with no mutation in between does not unbind the header and does not write
\* again the columns and the topology already written there: the node and
\* edge lists keep their paths, and so does the topology unless a FileFrame
\* is given.
C30_BoundAfterStore ==
    \A h \in Hosts :
        (nstores[h] = 2 /\ call[h].prevResult = "ok" /\ LocalPartDone(h)) =>
            /\ rdg[h].header.node_prop_info_list = call[h].preHeader.node_prop_info_list
            /\ rdg[h].header.edge_prop_info_list = call[h].preHeader.edge_prop_info_list
            /\ ~call[h].ff =>
                  /\ call[h].ntopo = 0
                  /\ rdg[h].header.topology_path = call[h].preHeader.topology_path

\* The names WritePartArrays gives to m mirror sets, n master sets and the id
\* vector (when there is one), in the order it writes them.
BoundaryNames(m, n, l2g) ==
    [i \in 1 .. m |-> "mirror_nodes_" \o ToString(i - 1)]
    \o [i \in 1 .. n |-> "master_nodes_" \o ToString(i - 1)]
    \o (IF l2g THEN << "local_to_global_vector" >> ELSE << >>)

\* Names that are no boundary column's.
OtherNames == {"", "mirror", "master_node", "local_to_global", "n0", "Mirror_nodes_0"}

\* C25: Store names the i-th mirror set mirror_nodes_i, the i-th master set
\* master_nodes_i and the id vector local_to_global_vector, in that order,
\* and a Make of the stored version puts the columns back into the mirror
\* sequence, the master sequence and the id vector they came from; a column
\* of any other name makes AddPartitionMetadataArray yield InvalidArgument.
C25_BoundaryColumnsRoundTrip ==
    /\ \A h \in Hosts :
          (Returned(h) /\ LocalPartDone(h)) =>
              [i \in DOMAIN rdg[h].header.part_prop_info_list |->
                   rdg[h].header.part_prop_info_list[i].name]
                = BoundaryNames(Len(rdg[h].mirror_nodes), Len(rdg[h].master_nodes),
                                rdg[h].local_to_global_vector # "null")
    /\ \A h \in Hosts :
          (MadeAfterStore(h) /\ made.status = "ok") =>
              /\ made.rdg.mirror_nodes = rdg[h].mirror_nodes
              /\ made.rdg.master_nodes = rdg[h].master_nodes
              /\ made.rdg.local_to_global_vector = rdg[h].local_to_global_vector
    /\ \A name \in OtherNames :
          LET M == AddPartitionMetadataArray(MakeStart(0, "throws"), name, "column")
          IN  /\ M.status = "failed" /\ M.error = "InvalidArgument"
              /\ M.mirror_nodes = << >> /\ M.master_nodes = << >>
              /\ M.local_to_global_vector = "null"

C25_Witness ==
    \E h \in Hosts :
        /\ MadeAfterStore(h) /\ made.status = "ok"
        /\ made.rdg.mirror_nodes = << "mirror0", "mirror1" >>
        /\ made.rdg.master_nodes = << "master0" >>
        /\ made.rdg.local_to_global_vector = "l2g"

\* The list has one entry per column of the table, in the table's column
\* order and with the column's name (a column is known by its name).
OneEntryPerColumn(properties, table) ==
    /\ Len(properties) = Len(table)
    /\ \A i \in DOMAIN properties : properties[i].name = table[i]

\* C26: after any sequence of Make, AddNodeProperties, AddEdgeProperties,
\* RemoveNodeProperty and RemoveEdgeProperty, the header's node (edge) list
\* has exactly one entry per column of the node (edge) table, in column order
\* and with the column's name; the entries Add*Properties appended have an
\* empty path (the only entries with a path are those of the version that
\* was loaded).
C26_OneEntryPerColumn ==
    \A h \in Hosts :
        /\ OneEntryPerColumn(rdg[h].header.node_prop_info_list, rdg[h].node_table)
        /\ OneEntryPerColumn(rdg[h].header.edge_prop_info_list, rdg[h].edge_table)
        /\ HeaderFiles(rdg[h].header)
              \subseteq HeaderFiles(blob[PartitionFileName(h, handle[h].version)]) \cup {NoPath}

\* Loaded with a filter, then a column added and a column removed.
C26_Witness ==
    \E h \in Hosts :
        /\ rdg[h].rdg_dir = Dir
        /\ Len(rdg[h].header.node_prop_info_list) = 2
        /\ rdg[h].header.node_prop_info_list[1].name = "n1"
        /\ rdg[h].header.node_prop_info_list[1].path # NoPath
        /\ rdg[h].header.node_prop_info_list[2].path = NoPath
        /\ rdg[h].edge_table = << >>

\* Every property asked for names a column of the schema that has its type.
AllBindable(schema, properties) ==
    \A i \in DOMAIN properties :
        \E j \in DOMAIN schema :
            schema[j].name = properties[i].name /\ schema[j].type = properties[i].type

\* C21: PropertyGraph::Make returns an error and no view if any requested
\* node or edge column is absent or of another encoded type; it succeeds only
\* when the node views and the edge views were all bound; and when the node
\* views fail, the edge views are not attempted.
C21_MakeFailsOnMismatch ==
    pg.op = "Make" =>
        LET nodes_ok == AllBindable(pg.node_schema, pg.args[1])
            edges_ok == AllBindable(pg.edge_schema, pg.args[2])
        IN  /\ pg.ret.ok <=> (nodes_ok /\ edges_ok)
            /\ pg.ret.ok =>
                  /\ Len(pg.ret.node_view) = Len(pg.args[1])
                  /\ Len(pg.ret.edge_view) = Len(pg.args[2])
                  /\ \A i \in DOMAIN pg.args[1] :
                        pg.node_schema[pg.ret.node_view[i]] = pg.args[1][i]
                  /\ \A i \in DOMAIN pg.args[2] :
                        pg.edge_schema[pg.ret.edge_view[i]] = pg.args[2][i]
            /\ ~pg.ret.ok =>
                  /\ pg.ret.error \in {"PropertyNotFound", "TypeError"}
                  /\ pg.ret.node_view = << >> /\ pg.ret.edge_view = << >>
            /\ ~nodes_ok => "edge" \notin pg.ret.attempted

\* A string column asked for as Int64, the edge request being fine.
C21_Witness ==
    /\ pg.op = "Make" /\ ~pg.ret.ok /\ pg.ret.error = "TypeError"
    /\ pg.args[1] = << Field("label", "Int64") >>
    /\ pg.args[2] = << Field("weight", "Int64") >>

\* C22: for every node n, edges(n) is the finite range
\* [edge_begin(n), edge_end(n)) of the offset table, walking it again gives
\* the same handles, edge_end(n) = edge_begin(n + 1) for every node that has
\* a successor, and the ranges of all nodes cover 0 .. num_edges() - 1 exactly
\* once.
C22_EdgeRanges ==
    /\ \A n \in 0 .. num_nodes(pg) - 1 :
          /\ edge_begin(pg, n) <= edge_end(pg, n)
          /\ Enumerate(edges(pg, n))
               = [i \in 1 .. edge_end(pg, n) - edge_begin(pg, n) |-> edge_begin(pg, n) + i - 1]
          /\ n + 1 < num_nodes(pg) => edge_end(pg, n) = edge_begin(pg, n + 1)
    /\ \A e \in 0 .. num_edges(pg) - 1 :
          Cardinality({n \in 0 .. num_nodes(pg) - 1 :
                          edge_begin(pg, n) <= e /\ e < edge_end(pg, n)}) = 1
    /\ \A n \in 0 .. num_nodes(pg) - 1 :
          \A e \in edge_begin(pg, n) .. edge_end(pg, n) - 1 : e < num_edges(pg)
    /\ pg.op = "edges" =>
          /\ pg.ret.begin = edge_range(pg, pg.args[1])[1]
          /\ pg.ret.end = edge_range(pg, pg.args[1])[2]
          /\ pg.ret.handles = Enumerate(edges(pg, pg.args[1]))

C22_Witness ==
    /\ pg.op = "edges" /\ pg.args[1] = 1
    /\ pg.ret.handles = << 1, 2 >>
    /\ num_nodes(pg) = 3

\* The edge list of a node is sorted by destination.
SortedByDest(g, node) ==
    \A e \in edge_begin(g, node) .. edge_end(g, node) - 2 :
        GetEdgeDest(g, e) <= GetEdgeDest(g, e + 1)

\* C23: when the edge list of node is sorted by destination,
\* FindEdgeSortedByDest(graph, node, node_to_find) returns an edge of
\* edges(node) whose destination is node_to_find if there is one, and
\* edge_end(node) otherwise.
C23_FindEdgeSortedByDest ==
    (pg.op = "FindEdgeSortedByDest" /\ SortedByDest(pg, pg.args[1])) =>
        LET node == pg.args[1]
            node_to_find == pg.args[2]
            hits == {e \in edge_begin(pg, node) .. edge_end(pg, node) - 1 :
                        GetEdgeDest(pg, e) = node_to_find}
        IN  IF hits # {} THEN pg.ret \in hits ELSE pg.ret = edge_end(pg, node)

\* Found behind an edge of a smaller destination, in a list of three.
C23_Witness ==
    /\ pg.op = "FindEdgeSortedByDest" /\ SortedByDest(pg, pg.args[1])
    /\ edge_end(pg, pg.args[1]) - edge_begin(pg, pg.args[1]) = 3
    /\ pg.ret = edge_begin(pg, pg.args[1]) + 1
    /\ pg.args[1] # pg.args[2]

\* Where a host stands between two consecutive steps of the commit pipeline:
\* after the header write and before Finish, after Finish (every write is
\* complete) and before the barrier, after the barrier and before Update,
\* after Update, and in the callback of OneHostOnly before the
\* metadata-pointer write.
BetweenCommitSteps == {"ptp158", "ptp163", "update", "ptp176", "ptp178"}

\* C31: the commit pipeline has a fault-injection checkpoint at each point
\* the specification lists, so execution can be aborted there: after the
\* header write, after the writes complete, before the barrier, after the
\* barrier, before the naming-service Update and after it.
C31_CheckpointAtEachPoint ==
    \A h \in Hosts :
        (pc[h] \in BetweenCommitSteps /\ nfaults < MaxFaults) => ENABLED Crash(h)

\* Every host has returned from the same number of Store calls, and no
\* other writer committed to the directory.
SingleWriterAtRest ==
    /\ nforeign = 0
    /\ \A h \in Hosts : Returned(h) /\ nstores[h] = nstores[ElectedHost]

\* C32: for a single writer on a directory, after every Store call returns
\* (success or failure), the version in the handle's RDGMeta is the latest
\* version the naming service records for the directory.
C32_HandleTracksNamingService ==
    SingleWriterAtRest => \A h \in Hosts : handle[h].version = ns.version

\* The metadata-pointer files the blob store holds.
PointerFiles(store) == {p \in DOMAIN store : p.kind = "meta"}

\* C33: a version's metadata-pointer file is immutable once written, over
\* any sequence of Store calls by one or several writers on the directory:
\* no step writes RDGMeta::FileName(dir, v) when that file already exists,
\* and the content of the file is the RDGMeta the naming service recorded
\* for v.
C33_PointerFileImmutable ==
    /\ [][\A p \in PointerFiles(blob) : blob'[p] = blob[p]]_vars
    /\ [](\A i \in DOMAIN nsHist :
             FileName(nsHist[i].meta.version) \in DOMAIN blob
                => blob[FileName(nsHist[i].meta.version)] = nsHist[i].meta)

\* Every host has returned from the same number of Store calls, and the
\* handles held the same version when the last of them was called.
CollectiveStoreReturned ==
    /\ \A h \in Hosts : Returned(h) /\ nstores[h] = nstores[ElectedHost]
    /\ \A h \in Hosts : call[h].preMeta.version = call[ElectedHost].preMeta.version

\* C34: hosts stay in agreement across a collective Store: if the handles of
\* all hosts hold the same version before the call, then once the call has
\* returned on every host the handles hold the same version again, the next
\* one on every host when the elected host's pointer-file write succeeded
\* and the old one on every host when it did not.
C34_HostsStayInAgreement ==
    CollectiveStoreReturned =>
        \A h \in Hosts :
            handle[h].version =
                IF call[ElectedHost].wrotePtr
                THEN call[h].preMeta.version + 1
                ELSE call[h].preMeta.version

\* Both outcomes in one run: a collective Store whose pointer-file write
\* failed, then one that committed.
C34_Witness ==
    /\ CollectiveStoreReturned
    /\ call[ElectedHost].wrotePtr
    /\ \A h \in Hosts :
          /\ nstores[h] = 2
          /\ call[h].prevResult = "IOError"
          /\ handle[h].version = call[h].preMeta.version + 1

\* The entries WriteTable writes: to be persisted and without a path.
Written(properties) ==
    {i \in DOMAIN properties : properties[i].persist /\ properties[i].path = NoPath}

\* C35: on success WriteTable returns a list with the length, order, names
\* and persist flags of the input list; entries that were not written keep
\* their path, and the k-th file name generated in the call is assigned to
\* the k-th entry that was written, which is the file holding that column's
\* data.
C35_WriteTableFrame ==
    wt.status = "ok" =>
        /\ Len(wt.ret) = Len(wt.properties)
        /\ Len(wt.next_paths) = Cardinality(Written(wt.properties))
        /\ \A i \in DOMAIN wt.properties :
              /\ wt.ret[i].name = wt.properties[i].name
              /\ wt.ret[i].persist = wt.properties[i].persist
              /\ i \notin Written(wt.properties) => wt.ret[i].path = wt.properties[i].path
              /\ i \in Written(wt.properties) =>
                    LET k == Cardinality({j \in Written(wt.properties) : j <= i})
                    IN  /\ wt.ret[i].path = wt.next_paths[k]
                        /\ File(wt.ret[i].path, wt.schema[i]) \in wt.started

\* Two columns written around one that is stored already, one of them under
\* the name of the schema's field.
C35_Witness ==
    /\ wt.status = "ok"
    /\ Written(wt.properties) = {1, 3}
    /\ wt.properties[2].path # NoPath
    /\ wt.properties[1].name = "" /\ wt.properties[3].name = "p3"
    /\ wt.ret[1].path # wt.ret[3].path

\* C36: subgraph isomorphism stops at k instances: for either algorithm and
\* any number of worker threads, the number of matchings appended to the
\* report and the value of currentlyFound never exceed kFound.
C36_StopsAtKFound ==
    search.algo # "none" =>
        /\ Len(search.report) <= search.kFound
        /\ search.currentlyFound <= search.kFound

\* C37: every matching reported by the subgraph search (Ullmann or VF2)
\* passes verifyMatching: one data node per query node, no data node shared
\* by two query nodes, equal labels, and a data edge for every query edge
\* between matched query nodes.
C37_ReportedMatchingsVerify ==
    search.algo # "none" =>
        \A i \in DOMAIN search.report :
            /\ verifyMatching(search.report[i], search.gD, search.gQ)
            /\ {search.report[i][j].nQ : j \in DOMAIN search.report[i]} = 1 .. search.gQ.n

\* C38: whenever a call of VF2 doSearch returns while currentlyFound is
\* below kFound, the thread's qMatched, qFrontier, dMatched and dFrontier
\* and the matching are what they were when the call was entered.
C38_BacktrackingRestores ==
    search.algo = "vf2" =>
        \A t \in Threads :
            LET ret == search.th[t].ret
            IN  (ret.returned /\ ret.found < search.kFound) => ret.exit = ret.entry

====
